---------------------------- MODULE Spec2Model ----------------------------
(***************************************************************************)
(* A model of the binary decoders and the histogram aggregation of         *)
(* python/particle_distribution.py and of the spectrum routines of         *)
(* python/spectrum_fitting.py.                                             *)
(*                                                                         *)
(* Each program is modelled under its own specification:                   *)
(*   SpecParticle   read_particle_data on one particle file, byte by byte  *)
(*   SpecAggregate  get_particle_distribution over a block of rank files   *)
(*   SpecVdist      read_velocity_distribution on a 2D/1D file pair        *)
(*   SpecAccum      accumulated_particle_info on an energy/flux pair       *)
(*   SpecPowerLaw   power_law_fit on an energy/flux pair and a window      *)
(*   SpecSpectrum   read_energy_distribution, plot_spectrum and            *)
(*                  calc_nonthermal_fraction on the spectrum files         *)
(*   SpecConfig     generate_spectrum_vdist_config, write by write         *)
(*   SpecCell       calc_velocity_distribution on one particle: its cell   *)
(*                  coordinate and its place in the mask                   *)
(*   SpecThermal    fit_thermal_core on an energy/flux pair                *)
(*   SpecRanks      set_mpi_ranks on a box center and its sizes            *)
(*                                                                         *)
(* Conventions.  A file is the sequence of its bytes (0..255); byte offset *)
(* k of the source is element k+1 of the sequence.  Integers in a file are *)
(* 32-bit two's complement in the byte order of the machine that runs the  *)
(* script (little-endian here).  A float32 is kept as its 4-byte image.    *)
(***************************************************************************)
EXTENDS Integers, Sequences, FiniteSets, Bags, TLC

VARIABLES
    pc,           \* position of the running function
    openHandles,  \* names of the file handles that are open
    offset,       \* the local variable `offset` of the decode routines
    reads,        \* the byte ranges read so far, in order
    file,         \* SpecParticle: the bytes of the particle file; SpecConfig: the
                  \* lines of the configuration file
    exists,       \* whether open(fname) succeeds
    fpos,         \* SpecParticle: position of fh set by fh.seek
    header,       \* SpecParticle: (v0, pheader) once decoded, else None
    result,       \* what the function returned, None until it returns
    err,          \* the exception the function ended in, None if none
    species,      \* SpecVdist: the argument `species`
    f2d,          \* SpecVdist: the vdist_2d file (exists, size, stored nbins)
    f1d,          \* SpecVdist: the vdist_1d file (exists, size)
    nbins,        \* SpecVdist: the local `nbins` read from the 2D header
    opened,       \* SpecVdist: the file names opened so far, in order
    pic_info,     \* SpecAggregate: topology_x/y/z and mime of the run
    mpi_ranks,    \* SpecAggregate: the argument `mpi_ranks`, [start, end] per axis
    corners,      \* SpecAggregate: the argument `corners`, [min, max] per axis
    rankfiles,    \* SpecAggregate: what the rank files on disk hold
    loop,         \* SpecAggregate: the loop variables ix, iy, iz
    hist_xy,      \* SpecAggregate: accumulator, bins (uy, ux)
    hist_xz,      \* SpecAggregate: accumulator, bins (uz, ux)
    hist_yz,      \* SpecAggregate: accumulator, bins (uz, uy)
    vhist,        \* SpecAggregate: the histograms of the file decoded last
    visited,      \* SpecAggregate: ranks whose file was decoded and added
    ene,          \* spectrum routines: the argument `ene` (energy bins)
    flux,         \* spectrum routines: the argument `f` (flux)
    i_bin,        \* SpecAccum: the loop variable i
    nacc_ene,     \* SpecAccum: the local nacc_ene
    eacc_ene,     \* SpecAccum: the local eacc_ene
    extend,       \* SpecPowerLaw: the argument `extend`
    estart,       \* SpecPowerLaw: the local estart
    eend,         \* SpecPowerLaw: the local eend
    popt,         \* SpecPowerLaw: the fitted (slope, intercept), None before
    caller,       \* SpecSpectrum: the function that was called
    specfile,     \* SpecSpectrum: the spectrum files on disk
    kwargs,       \* the keyword arguments of plot_spectrum (SpecSpectrum) and of
                  \* generate_spectrum_vdist_config (SpecConfig)
    fnorm,        \* SpecSpectrum: the factor passed to get_energy_distribution
    spect,        \* SpecSpectrum: (elin, flin, elog, flog) as returned
    ct,           \* SpecSpectrum: the frame index of calc_nonthermal_fraction
    fthermal,     \* SpecSpectrum: the local fthermal
    fnonthermal,  \* SpecSpectrum: the local fnonthermal
    fthermal1,    \* SpecSpectrum: the local fthermal1
    fnonthermal1, \* SpecSpectrum: the local fnonthermal1
    fitcalls,     \* the flux arguments of the fitting calls made, in order
    v0header,     \* SpecCell: the argument `v0` (grid header of the rank)
    particle,     \* SpecCell: one element of the argument `ptl`
    cellxyz,      \* SpecCell: the locals ix, iy, iz of that particle
    mask,         \* SpecCell: the element of `mask` of that particle
    center,       \* SpecRanks: the argument `center`
    sizes         \* SpecRanks: the argument `sizes`

None == "None"

varsShared == << pc, openHandles, offset, reads, result, err >>
varsParticle == << file, exists, fpos, header >>
varsVdist == << species, f2d, f1d, nbins, opened >>
varsAggregate ==
    << pic_info, mpi_ranks, corners, rankfiles, loop, hist_xy, hist_xz, hist_yz,
       vhist, visited >>
varsSpectrum ==
    << ene, flux, i_bin, nacc_ene, eacc_ene, extend, estart, eend, popt, caller, specfile,
       kwargs, fnorm, spect, ct, fthermal, fnonthermal, fthermal1, fnonthermal1,
       fitcalls >>
varsBox == << v0header, particle, cellxyz, mask, center, sizes >>
vars ==
    << varsShared, varsParticle, varsVdist, varsAggregate, varsSpectrum, varsBox >>

\* the variables of a program that is not the one running
IdleParticle == file = << >> /\ exists = FALSE /\ fpos = 0 /\ header = None
IdleVdist ==
    species = None /\ f2d = None /\ f1d = None /\ nbins = None /\ opened = << >>
IdleBinning ==
    /\ mpi_ranks = None /\ corners = None /\ rankfiles = None
    /\ loop = None /\ hist_xy = << >> /\ hist_xz = << >> /\ hist_yz = << >>
    /\ vhist = None /\ visited = << >>
IdleAggregate == pic_info = None /\ IdleBinning
IdleAccum ==
    ene = << >> /\ flux = << >> /\ i_bin = 0 /\ nacc_ene = << >> /\ eacc_ene = << >>
IdlePowerLaw == extend = 0 /\ estart = 0 /\ eend = 0 /\ popt = None
IdleDecompose ==
    /\ caller = None /\ specfile = None /\ kwargs = None /\ fnorm = 0 /\ spect = None
    /\ ct = 0 /\ fthermal = << >> /\ fnonthermal = << >> /\ fthermal1 = << >>
    /\ fnonthermal1 = << >>
IdleSpectrum == IdleAccum /\ IdlePowerLaw /\ IdleDecompose /\ fitcalls = << >>
IdleCell == v0header = None /\ particle = None /\ cellxyz = None /\ mask = None
IdleRanks == center = << >> /\ sizes = << >>
IdleBox == IdleCell /\ IdleRanks

--------------------------------------------------------------------------
(* Bytes and integers *)

\* Bound: the largest element count (pheader.dim) stored in a modelled file.
MaxDim == 2

\* bytes [off, off+n) of f
Bytes(f, off, n) == SubSeq(f, off + 1, off + n)

\* np.memmap(fh, mode='r' or 'c', offset=off, shape=...) of n bytes: mmap
\* refuses a mapping that ends after the end of the file (ValueError).
\* flen is the length of the file.
\* (variant: a mapping that never checks the length of the file)
MemmapNoCheck(flen, off, n) == TRUE
MemmapOK(flen, off, n) == off + n <= flen

\* dtype int32, little-endian two's complement (bit 31 is the sign)
Int32(b) ==
    LET low == b[1] + 256 * b[2] + 65536 * b[3] + 16777216 * (b[4] % 128)
    IN  IF b[4] >= 128 THEN (low - 2147483647) - 1 ELSE low

\* byte k (0..3) of the int32 image of v
Int32Byte(v, k) ==
    LET low == IF v < 0 THEN (v + 2147483647) + 1 ELSE v
        d == CASE k = 0 -> 1 [] k = 1 -> 256 [] k = 2 -> 65536 [] OTHER -> 16777216
    IN  IF k = 3 THEN (low \div d) + (IF v < 0 THEN 128 ELSE 0)
        ELSE (low \div d) % 256

\* math.sqrt(pic_info.mime), for the mass ratios of the model (squares)
Sqrt(m) == CHOOSE r \in 0..m : r * r = m

--------------------------------------------------------------------------
(* Particle files: read_boilerplate, read_particle_header, read_particle_data *)

\* One np.memmap call of a decode routine: the array read, the bytes of its
\* shape (size) and the amount the code then adds to `offset` (step).
Field(a, sz, st) == [arr |-> a, size |-> sz, step |-> st]

\* read_boilerplate: int8[5], int16[1], int32[1], float32[1], float64[1]
BoilerplateFields ==
    << Field("sizearr", 5, 5), Field("cafevar", 2, 2), Field("deadbeefvar", 4, 4),
       Field("realone", 4, 4), Field("doubleone", 8, 0) >>

\* read_particle_header starts at `offset = 23`
HeaderStart == 23

\* read_particle_header: int32[6], float32[10], int32[4], then int32[3]
\* (variants: without the final offset += 3 * 4; with offset += 3 * 4 after
\* the four elements of tmp3)
HeaderFieldsNoSubheaderStep ==
    << Field("tmp1", 6 * 4, 6 * 4), Field("tmp2", 10 * 4, 10 * 4),
       Field("tmp3", 4 * 4, 4 * 4), Field("tmp4", 3 * 4, 0) >>
HeaderFieldsShortTmp3 ==
    << Field("tmp1", 6 * 4, 6 * 4), Field("tmp2", 10 * 4, 10 * 4),
       Field("tmp3", 4 * 4, 3 * 4), Field("tmp4", 3 * 4, 3 * 4) >>
HeaderFields ==
    << Field("tmp1", 6 * 4, 6 * 4), Field("tmp2", 10 * 4, 10 * 4),
       Field("tmp3", 4 * 4, 4 * 4), Field("tmp4", 3 * 4, 3 * 4) >>

\* particle_type: dxyz float32[3], icell int32, u float32[3], q float32
ParticleItemSize == 3 * 4 + 4 + 3 * 4 + 4

\* The memmap calls of one routine, in order, from offset `off`: the first
\* mapping that does not fit raises and ends the routine.
RECURSIVE DoReads(_, _, _, _)
DoReads(flen, off, fields, acc) ==
    IF fields = << >>
    THEN [ok |-> TRUE, off |-> off, reads |-> acc]
    ELSE LET fld == Head(fields)
         IN  IF ~MemmapOK(flen, off, fld.size)
             THEN [ok |-> FALSE, off |-> off, reads |-> acc]
             ELSE DoReads(flen, off + fld.step, Tail(fields),
                          Append(acc, [arr |-> fld.arr, off |-> off, size |-> fld.size]))

\* the read of array a in a list of reads
ReadOf(rd, a) == CHOOSE r \in {rd[i] : i \in 1..Len(rd)} : r.arr = a

\* element k (from 0) of a 4-byte-element array read at r
Elem(f, r, k) == Bytes(f, r.off + 4 * k, 4)

\* the namedtuples v0header and header_particle
DecodeHeader(f, rd) ==
    LET t1 == ReadOf(rd, "tmp1")
        t2 == ReadOf(rd, "tmp2")
        t3 == ReadOf(rd, "tmp3")
        t4 == ReadOf(rd, "tmp4")
    IN  [v0 |-> [version |-> Int32(Elem(f, t1, 0)), type |-> Int32(Elem(f, t1, 1)),
                 nt |-> Int32(Elem(f, t1, 2)), nx |-> Int32(Elem(f, t1, 3)),
                 ny |-> Int32(Elem(f, t1, 4)), nz |-> Int32(Elem(f, t1, 5)),
                 dt |-> Elem(f, t2, 0), dx |-> Elem(f, t2, 1), dy |-> Elem(f, t2, 2),
                 dz |-> Elem(f, t2, 3), x0 |-> Elem(f, t2, 4), y0 |-> Elem(f, t2, 5),
                 z0 |-> Elem(f, t2, 6), cvac |-> Elem(f, t2, 7), eps0 |-> Elem(f, t2, 8),
                 damp |-> Elem(f, t2, 9), rank |-> Int32(Elem(f, t3, 0)),
                 ndom |-> Int32(Elem(f, t3, 1)), spid |-> Int32(Elem(f, t3, 2)),
                 spqm |-> Int32(Elem(f, t3, 3))],
         pheader |-> [size |-> Int32(Elem(f, t4, 0)), ndim |-> Int32(Elem(f, t4, 1)),
                      dim |-> Int32(Elem(f, t4, 2))]]

\* one item of dtype particle_type from its 32 bytes
DecodeParticle(b) ==
    [dxyz |-> SubSeq(b, 1, 12), icell |-> Int32(SubSeq(b, 13, 16)),
     u |-> SubSeq(b, 17, 28), q |-> SubSeq(b, 29, 32)]

\* np.fromfile(fh, dtype, count) with fh at pos: count items, or every
\* complete item to the end of the file when count < 0; a file that ends
\* early yields the complete items it holds, with no error.
\* (variant: count ignored, the file is read to its end)
FromFileWholeFile(f, pos, count) ==
    LET avail == IF pos >= Len(f) THEN 0 ELSE (Len(f) - pos) \div ParticleItemSize
    IN  [i \in 1..avail |->
            DecodeParticle(Bytes(f, pos + ParticleItemSize * (i - 1), ParticleItemSize))]
FromFile(f, pos, count) ==
    LET avail == IF pos >= Len(f) THEN 0 ELSE (Len(f) - pos) \div ParticleItemSize
        n == IF count < 0 \/ count > avail THEN avail ELSE count
    IN  [i \in 1..n |->
            DecodeParticle(Bytes(f, pos + ParticleItemSize * (i - 1), ParticleItemSize))]

\* Lengths of the modelled particle files: short of the boilerplate, of the
\* header, of the sub-header, and with 0..MaxDim+1 records, whole or cut.
FileLens ==
    {0, 10, 23, 50, 100, 103, 114}
        \cup {115 + 32 * k + e : k \in 0..(MaxDim + 1), e \in {0, 7}}

\* Element counts stored in the sub-header (-1: a corrupt count).
DimValues == (-1)..MaxDim

\* A particle file of len bytes whose sub-header element count is dim: the
\* header and the first dim records follow the pattern `fill`, whatever
\* comes after them the pattern `tail`.
MakeFile(len, dim, fill, tail) ==
    LET body == 115 + 32 * (IF dim < 0 THEN 0 ELSE dim)
    IN  [p \in 1..len |->
            IF p - 1 \in 111..114 THEN Int32Byte(dim, p - 1 - 111)
            ELSE IF p - 1 < body THEN (fill * p) % 256
            ELSE (tail * p) % 256]

InitParticle ==
    /\ pc = "open"
    /\ openHandles = {}
    /\ offset = 0
    /\ reads = << >>
    /\ exists \in BOOLEAN
    /\ \E len \in FileLens, dim \in DimValues, fill \in {1, 3}, tail \in {5, 7} :
          file = IF exists THEN MakeFile(len, dim, fill, tail) ELSE << >>
    /\ fpos = 0
    /\ header = None
    /\ result = None
    /\ err = None
    /\ IdleVdist
    /\ IdleAggregate
    /\ IdleSpectrum
    /\ IdleBox

\* read_particle_data, line 97: fh = open(fname, 'r')
open_particle_file ==
    /\ pc = "open"
    /\ IF exists
       THEN /\ openHandles' = openHandles \cup {"fh"}
            /\ pc' = "read_boilerplate"
            /\ err' = err
       ELSE /\ openHandles' = openHandles
            /\ pc' = "raised"
            /\ err' = "IOError"
    /\ UNCHANGED << offset, reads, result, varsParticle, varsVdist, varsAggregate, varsSpectrum,
                    varsBox >>

\* read_particle_data, line 98: read_boilerplate(fh)
read_boilerplate ==
    /\ pc = "read_boilerplate"
    /\ LET r == DoReads(Len(file), 0, BoilerplateFields, << >>)
       IN  /\ reads' = reads \o r.reads
           /\ IF r.ok
              THEN pc' = "read_particle_header" /\ err' = err
              ELSE pc' = "raised" /\ err' = "ValueError"
    /\ UNCHANGED << openHandles, offset, result, varsParticle, varsVdist, varsAggregate, varsSpectrum,
                    varsBox >>

\* read_particle_data, line 99: v0, pheader, offset = read_particle_header(fh)
read_particle_header ==
    /\ pc = "read_particle_header"
    /\ LET r == DoReads(Len(file), HeaderStart, HeaderFields, << >>)
       IN  /\ reads' = reads \o r.reads
           /\ IF r.ok
              THEN /\ header' = DecodeHeader(file, r.reads)
                   /\ offset' = r.off
                   /\ pc' = "read_records"
                   /\ err' = err
              ELSE /\ header' = header
                   /\ offset' = offset
                   /\ pc' = "raised"
                   /\ err' = "ValueError"
    /\ UNCHANGED << openHandles, result, file, exists, fpos, varsVdist, varsAggregate, varsSpectrum,
                    varsBox >>

\* read_particle_data, lines 100-106: seek, fromfile, close, return
read_particle_data ==
    /\ pc = "read_records"
    /\ LET nptl == header.pheader.dim
           data == FromFile(file, offset, nptl)
       IN  /\ fpos' = offset
           /\ reads' = Append(reads, [arr |-> "data", off |-> offset,
                                      size |-> ParticleItemSize * Len(data)])
           /\ result' = [v0 |-> header.v0, pheader |-> header.pheader, data |-> data]
    /\ openHandles' = openHandles \ {"fh"}
    /\ pc' = "returned"
    /\ UNCHANGED << offset, err, file, exists, header, varsVdist, varsAggregate, varsSpectrum,
                    varsBox >>

NextParticle ==
    \/ open_particle_file
    \/ read_boilerplate
    \/ read_particle_header
    \/ read_particle_data

SpecParticle == InitParticle /\ [][NextParticle]_vars

--------------------------------------------------------------------------
(* Claims about the particle-file decoder (SpecParticle) *)

\* the element count stored in the sub-header: third int32 after the
\* 23-byte boilerplate and the 20 four-byte fields of the v0 header
StoredCount(f) == Int32(Bytes(f, 23 + 20 * 4 + 2 * 4, 4))

\* the header reads in `reads`: they follow the five boilerplate reads
HeaderReads == SubSeq(reads, Len(BoilerplateFields) + 1, Len(BoilerplateFields) + 4)

\* C1 as stated: read_particle_data seeks to byte offset 103 (boilerplate
\* plus 80-byte header) before it reads the particle records.
C1_SeeksTo103 ==
    pc = "returned" => (fpos = 103 /\ offset = 103)

\* C1 as amended: the offset returned by read_particle_header and passed to
\* fh.seek is 115 = 23 (boilerplate) + 80 (v0 header) + 12 (sub-header).
C1_SeeksTo115 ==
    /\ pc \in {"read_records", "returned"} => offset = 115
    /\ pc = "returned" => fpos = 115

C1_Witness ==
    pc = "returned" /\ fpos = 115 /\ Len(result.data) = 2

\* C2: the header is read from four contiguous, non-overlapping byte ranges
\* that start at byte 23: 80 bytes of v0 fields, then the 12-byte
\* sub-header; the returned offset is the first byte after the sub-header,
\* 23 + 20*4 + 3*4, whatever the file holds.
C2_HeaderLayoutGapFree ==
    pc \in {"read_records", "returned"} =>
        LET h == HeaderReads
        IN  /\ h[1].off = 23
            /\ \A i \in 1..3 : h[i + 1].off = h[i].off + h[i].size
            /\ h[1].size + h[2].size + h[3].size = 20 * 4
            /\ h[4].size = 3 * 4
            /\ offset = h[4].off + h[4].size
            /\ offset = 23 + 20 * 4 + 3 * 4
            /\ header.pheader.dim = StoredCount(file)

C2_Witness ==
    pc = "read_records" /\ header.pheader.dim = 2 /\ Len(file) > 115

\* C3: a file holding at least `count` complete records after the header
\* (count = pheader.dim >= 0) yields exactly count records, record i decoded
\* from the 32 bytes at 115 + 32*(i-1); the result is a function of the
\* first 115 + 32*count bytes, so the bytes after them do not change it.
C3_ExactlyCountRecords ==
    (pc = "returned" /\ StoredCount(file) >= 0
        /\ Len(file) >= 115 + 32 * StoredCount(file)) =>
        LET count == StoredCount(file)
            prefix == SubSeq(file, 1, 115 + 32 * count)
        IN  /\ result.pheader.dim = count
            /\ Len(result.data) = count
            /\ \A i \in 1..count :
                  result.data[i] = DecodeParticle(Bytes(prefix, 115 + 32 * (i - 1), 32))

C3_Witness ==
    /\ pc = "returned"
    /\ StoredCount(file) = 2
    /\ Len(file) >= 115 + 32 * 3
    /\ Len(result.data) = 2

\* C4: a particle file shorter than the bytes a decode stage needs (the
\* boilerplate, the header, count*32 bytes of records) never makes
\* read_particle_data return: it ends in an error.
C4_TruncatedFileNeverReturns ==
    (exists /\ (Len(file) < 115
                \/ (StoredCount(file) >= 0 /\ Len(file) < 115 + 32 * StoredCount(file))))
        => pc # "returned"

\* C5: no file handle is open once a decode function has returned or raised.
C5_HandlesClosedOnExit ==
    pc \in {"returned", "raised"} => openHandles = {}

--------------------------------------------------------------------------
(* Velocity-distribution files: read_velocity_distribution *)

\* Bound: the largest nbins stored in a modelled vdist_2d header.
MaxNbins == 2

SpeciesValues == {"e", "h", "i"}

\* header of the 2D file: center float32[3], sizes float32[3],
\* (vmin, vmax) float32[2], nbins int32[1]
Vdist2DHeaderFields ==
    << Field("center", 3 * 4, 3 * 4), Field("sizes", 3 * 4, 3 * 4),
       Field("vminmax", 2 * 4, 2 * 4), Field("nbins", 4, 4) >>

\* the float64 arrays of the 2D file, for nbins = n
\* (variant: offset advanced by nbins * nbins elements after fvel_para_perp)
Vdist2DArrayFieldsHalfParaPerp(n) ==
    << Field("vbins_short", 8 * n, 8 * n),
       Field("vbins_long", 8 * 2 * n, 8 * n * 2),
       Field("fvel_para_perp", 8 * n * 2 * n, 8 * n * n),
       Field("fvel_xy", 8 * 2 * n * 2 * n, 8 * 2 * n * 2 * n),
       Field("fvel_xz", 8 * 2 * n * 2 * n, 8 * 2 * n * 2 * n),
       Field("fvel_yz", 8 * 2 * n * 2 * n, 0) >>
Vdist2DArrayFields(n) ==
    << Field("vbins_short", 8 * n, 8 * n),
       Field("vbins_long", 8 * 2 * n, 8 * n * 2),
       Field("fvel_para_perp", 8 * n * 2 * n, 8 * n * 2 * n),
       Field("fvel_xy", 8 * 2 * n * 2 * n, 8 * 2 * n * 2 * n),
       Field("fvel_xz", 8 * 2 * n * 2 * n, 8 * 2 * n * 2 * n),
       Field("fvel_yz", 8 * 2 * n * 2 * n, 0) >>

\* 1D file: "skip headers", offset = 9 * 4 + 8 * nbins * 3
Vdist1DStart(n) == 9 * 4 + 8 * n * 3

\* the float64 arrays of the 1D file, for nbins = n
Vdist1DFields(n) ==
    << Field("fvel_para", 8 * 2 * n, 8 * n * 2), Field("fvel_perp", 8 * n, 0) >>

\* 'vdist_2d-' + species for electrons, 'vdist_2d-h' otherwise (same for 1d)
VdistFileName(dim, sp) ==
    IF sp = "e" THEN << "vdist", dim, sp >> ELSE << "vdist", dim, "h" >>

\* bytes a 2D / 1D file needs for nbins = n
Need2D(n) == 36 + 24 * n + 112 * n * n
Need1D(n) == 36 + 48 * n

NbinsValues == (-1)..MaxNbins

\* pic_info.mime: mass ratios whose square root is a whole number
MimeValues == {1, 4, 25}

\* A float of the file or of the result is the fraction n / d.
Float(v) == [n |-> v, d |-> 1]

\* x /= s
Quot(x, s) == [n |-> x.n, d |-> x.d * s]

\* the velocities a modelled 2D file stores: vmax is one of these, the bins
\* vbins_short and vbins_long are the grids of step vmax the writer
\* derives from it
StoredVelocities == {5, 10}
StoredVbinsShort(fl, n) == [i \in 1..n |-> Float(i * fl.vmax)]
StoredVbinsLong(fl, n) == [i \in 1..(2 * n) |-> Float((i - n) * fl.vmax)]

\* lines 431-436: smime = math.sqrt(pic_info.mime); for species 'h' the
\* four values are divided by smime in place
\* (variant: divided by the mass ratio itself)
IonCorrectionByMime(sp, x, pic) ==
    IF sp = "h" THEN Quot(x, pic.mime) ELSE x
IonCorrection(sp, x, pic) ==
    LET smime == Sqrt(pic.mime)
    IN  IF sp = "h" THEN Quot(x, smime) ELSE x

Vdist2DSizes ==
    {0, 20, 36} \cup {36 + 24 * n : n \in 1..MaxNbins}
        \cup {Need2D(n) + e : n \in 1..MaxNbins, e \in {-8, 0, 8}}
Vdist1DSizes ==
    {0} \cup {36 + 40 * n : n \in 1..MaxNbins}
        \cup {Need1D(n) + e : n \in 1..MaxNbins, e \in {-8, 0, 8}}

InitVdist ==
    /\ pc = "open_2d"
    /\ openHandles = {}
    /\ offset = 0
    /\ reads = << >>
    /\ result = None
    /\ err = None
    /\ species \in SpeciesValues
    /\ f2d \in [exists : BOOLEAN, size : Vdist2DSizes, nbins : NbinsValues,
                 vmin : {0, 5}, vmax : StoredVelocities]
    /\ f2d.exists \/ (f2d.size = 0 /\ f2d.nbins = 0)
    /\ f1d \in [exists : BOOLEAN, size : Vdist1DSizes]
    /\ f1d.exists \/ f1d.size = 0
    /\ nbins = None
    /\ opened = << >>
    /\ pic_info \in [mime : MimeValues]
    /\ (f2d.exists /\ f2d.size >= Need2D(f2d.nbins) /\ f2d.nbins > 0)
           \/ (f2d.vmin = 0 /\ f2d.vmax = 5 /\ pic_info.mime = 1)
    /\ IdleParticle
    /\ IdleBinning
    /\ IdleSpectrum
    /\ IdleBox

\* lines 368-372: f = open(fname, 'r') for the 2D file
open_vdist_2d ==
    /\ pc = "open_2d"
    /\ opened' = Append(opened, VdistFileName("2d", species))
    /\ IF f2d.exists
       THEN openHandles' = openHandles \cup {"f"} /\ pc' = "read_2d_header" /\ err' = err
       ELSE openHandles' = openHandles /\ pc' = "raised" /\ err' = "IOError"
    /\ UNCHANGED << offset, reads, result, species, f2d, f1d, nbins, varsParticle, varsAggregate, varsSpectrum,
                    varsBox >>

\* lines 373-387: center, sizes, vmin, vmax, nbins
read_vdist_2d_header ==
    /\ pc = "read_2d_header"
    /\ LET r == DoReads(f2d.size, 0, Vdist2DHeaderFields, << >>)
       IN  /\ reads' = reads \o r.reads
           /\ offset' = r.off
           /\ IF r.ok
              THEN nbins' = f2d.nbins /\ pc' = "read_2d_arrays" /\ err' = err
              ELSE nbins' = nbins /\ pc' = "raised" /\ err' = "ValueError"
    /\ UNCHANGED << openHandles, result, species, f2d, f1d, opened, varsParticle, varsAggregate, varsSpectrum,
                    varsBox >>

\* lines 388-411: np.zeros(nbins) (negative dimensions raise), the six
\* arrays of the 2D file, f.close()
read_vdist_2d_arrays ==
    /\ pc = "read_2d_arrays"
    /\ IF nbins < 0
       THEN /\ pc' = "raised" /\ err' = "ValueError"
            /\ UNCHANGED << reads, offset, openHandles >>
       ELSE LET r == DoReads(f2d.size, offset, Vdist2DArrayFields(nbins), << >>)
            IN  /\ reads' = reads \o r.reads
                /\ offset' = r.off
                /\ IF r.ok
                   THEN /\ openHandles' = openHandles \ {"f"}
                        /\ pc' = "open_1d" /\ err' = err
                   ELSE /\ openHandles' = openHandles
                        /\ pc' = "raised" /\ err' = "ValueError"
    /\ UNCHANGED << result, varsVdist, varsParticle, varsAggregate, varsSpectrum, varsBox >>

\* lines 413-417: f = open(fname, 'r') for the 1D file
open_vdist_1d ==
    /\ pc = "open_1d"
    /\ opened' = Append(opened, VdistFileName("1d", species))
    /\ IF f1d.exists
       THEN openHandles' = openHandles \cup {"f"} /\ pc' = "read_1d" /\ err' = err
       ELSE openHandles' = openHandles /\ pc' = "raised" /\ err' = "IOError"
    /\ UNCHANGED << offset, reads, result, species, f2d, f1d, nbins, varsParticle, varsAggregate, varsSpectrum,
                    varsBox >>

\* lines 418-427: fvel_para, fvel_perp, f.close()
read_vdist_1d ==
    /\ pc = "read_1d"
    /\ LET r == DoReads(f1d.size, Vdist1DStart(nbins), Vdist1DFields(nbins), << >>)
       IN  /\ reads' = reads \o r.reads
           /\ offset' = r.off
           /\ IF r.ok
              THEN /\ openHandles' = openHandles \ {"f"}
                   /\ pc' = "finish" /\ err' = err
              ELSE /\ openHandles' = openHandles
                   /\ pc' = "raised" /\ err' = "ValueError"
    /\ UNCHANGED << result, varsVdist, varsParticle, varsAggregate, varsSpectrum, varsBox >>

\* lines 429-474: unit correction for species 'h', + delta, the nonzero
\* minima and maxima (np.min of an empty array raises), return fvel
finish_vdist ==
    /\ pc = "finish"
    /\ IF nbins = 0
       THEN pc' = "raised" /\ err' = "ValueError" /\ result' = result
       ELSE /\ pc' = "returned"
            /\ err' = err
            /\ result' =
                  [species |-> species, nbins |-> nbins, scaled |-> (species = "h"),
                   vmin |-> IonCorrection(species, Float(f2d.vmin), pic_info),
                   vmax |-> IonCorrection(species, Float(f2d.vmax), pic_info),
                   vbins_short |->
                       [i \in 1..nbins |->
                           IonCorrection(species, StoredVbinsShort(f2d, nbins)[i], pic_info)],
                   vbins_long |->
                       [i \in 1..(2 * nbins) |->
                           IonCorrection(species, StoredVbinsLong(f2d, nbins)[i], pic_info)]]
    /\ UNCHANGED << openHandles, offset, reads, varsVdist, varsParticle, varsAggregate, varsSpectrum,
                    varsBox >>

NextVdist ==
    \/ open_vdist_2d
    \/ read_vdist_2d_header
    \/ read_vdist_2d_arrays
    \/ open_vdist_1d
    \/ read_vdist_1d
    \/ finish_vdist

SpecVdist == InitVdist /\ [][NextVdist]_vars

--------------------------------------------------------------------------
(* Claims about the velocity-distribution reader (SpecVdist) *)

\* where the claim puts each array, and the bytes of its shape, for nbins = n
ClaimedOffset(a, n) ==
    CASE a = "vbins_short" -> 36
      [] a = "vbins_long" -> 36 + 8 * n
      [] a = "fvel_para_perp" -> 36 + 24 * n
      [] a = "fvel_xy" -> 36 + 24 * n + 16 * n * n
      [] a = "fvel_xz" -> 36 + 24 * n + 48 * n * n
      [] a = "fvel_yz" -> 36 + 24 * n + 80 * n * n
      [] a = "fvel_para" -> 36 + 24 * n
      [] a = "fvel_perp" -> 36 + 40 * n
ClaimedSize(a, n) ==
    CASE a = "vbins_short" -> 8 * n
      [] a = "vbins_long" -> 8 * (2 * n)
      [] a = "fvel_para_perp" -> 8 * (n * (2 * n))
      [] a \in {"fvel_xy", "fvel_xz", "fvel_yz"} -> 8 * ((2 * n) * (2 * n))
      [] a = "fvel_para" -> 8 * (2 * n)
      [] a = "fvel_perp" -> 8 * n

Arrays2D == {"vbins_short", "vbins_long", "fvel_para_perp", "fvel_xy", "fvel_xz", "fvel_yz"}
Arrays1D == {"fvel_para", "fvel_perp"}

\* the file a read belongs to
FileOfRead(r) == IF r.arr \in Arrays1D THEN "1d" ELSE "2d"

\* C9: every array read by read_velocity_distribution has the shape and the
\* byte offset the claim derives from the header value nbins = n, and the
\* byte ranges read from one file are contiguous and do not overlap.
C9_OffsetsFromNbins ==
    /\ \A i \in 1..Len(reads) :
          reads[i].arr \in Arrays2D \cup Arrays1D =>
              /\ nbins = f2d.nbins
              /\ reads[i].off = ClaimedOffset(reads[i].arr, f2d.nbins)
              /\ reads[i].size = ClaimedSize(reads[i].arr, f2d.nbins)
    /\ \A i \in 1..(Len(reads) - 1) :
          FileOfRead(reads[i]) = FileOfRead(reads[i + 1]) =>
              reads[i + 1].off = reads[i].off + reads[i].size
    /\ \A i, j \in 1..Len(reads) :
          (i < j /\ FileOfRead(reads[i]) = FileOfRead(reads[j])) =>
              reads[i].off + reads[i].size <= reads[j].off

C9_Witness ==
    /\ pc = "returned"
    /\ nbins = 2
    /\ Len(reads) = 12
    /\ reads[12] = [arr |-> "fvel_perp", off |-> 116, size |-> 16]

\* C10: when the nbins stated in the 2D header implies more bytes than the
\* 2D file or the 1D file holds, read_velocity_distribution ends in an error
\* (the ValueError of the mapping that does not fit) and returns no record.
C10_ShortFileRaises ==
    LET n == f2d.nbins
        stated == f2d.exists /\ f2d.size >= 36 /\ n >= 0
        short2d == stated /\ Need2D(n) > f2d.size
        short1d == stated /\ f1d.exists /\ Need1D(n) > f1d.size
    IN  /\ short2d =>
              /\ pc \in {"open_2d", "read_2d_header", "read_2d_arrays", "raised"}
              /\ pc = "raised" => err = "ValueError"
        /\ (short2d \/ short1d) =>
              /\ pc \notin {"finish", "returned"}
              /\ result = None
              /\ pc = "raised" => err = "ValueError"

C10_Witness ==
    /\ pc = "raised"
    /\ err = "ValueError"
    /\ f2d.nbins = 2
    /\ f2d.size >= Need2D(2)
    /\ f1d.exists
    /\ f1d.size = Need1D(2) - 8
    /\ Len(reads) = 11

\* the fraction x equals the stored value v divided by s
IsStoredOver(x, v, s) == x.n * s = v * x.d

\* every value of array a equals the stored value of the same index over s
AllStoredOver(a, stored, s) ==
    /\ Len(a) = Len(stored)
    /\ \A i \in 1..Len(a) : IsStoredOver(a[i], stored[i].n, s)

\* the whole number whose square is the mass ratio
RootOfMime == CHOOSE r \in 1..25 : r * r = pic_info.mime

\* C11: for the ion species ('h') the returned vbins_short, vbins_long, vmin
\* and vmax are the stored values divided by sqrt(mime) (stored 5 with mass
\* ratio 25 is returned as 1); for the electron species ('e') the four are
\* returned as stored.
C11_IonVelocitiesOverSqrtMime ==
    pc = "returned" =>
        LET s == IF species = "h" THEN RootOfMime ELSE 1
        IN  /\ species \in {"e", "h"} =>
                  /\ IsStoredOver(result.vmin, f2d.vmin, s)
                  /\ IsStoredOver(result.vmax, f2d.vmax, s)
                  /\ AllStoredOver(result.vbins_short, StoredVbinsShort(f2d, nbins), s)
                  /\ AllStoredOver(result.vbins_long, StoredVbinsLong(f2d, nbins), s)
            /\ (species = "h" /\ pic_info.mime = 25 /\ f2d.vmax = 5) =>
                  result.vmax.n = result.vmax.d
            /\ species = "e" => result.vmax = Float(f2d.vmax)

C11_Witness ==
    /\ pc = "returned"
    /\ species = "h"
    /\ pic_info.mime = 25
    /\ f2d.vmax = 5
    /\ f2d.vmin = 5
    /\ nbins = 2
    /\ result.vmax.n = result.vmax.d
    /\ result.vbins_short[2].n = 2 * result.vbins_short[2].d

--------------------------------------------------------------------------
(* Binning and aggregation: calc_velocity_distribution,                   *)
(* get_particle_distribution.                                             *)
(*                                                                        *)
(* A histogram is the bag of its counted bins: <<i, j>> (from 0) occurs   *)
(* once per sample counted in row i, column j; the all-zero array is the  *)
(* empty bag and += is the sum of bags.  Velocities are kept in half      *)
(* units (u = 1 is the velocity 0.5), positions are kept doubled.         *)

\* Bounds: the largest topology per axis, the most rank files in one
\* block, the most particles in one file.
MaxTopo == 2
MaxBlock == 4
MaxPtl == 2

\* get_particle_distribution: nbins = 64
nbins_hist == 64

\* np.digitize(sample, edges) for edges = linspace(-1, 1, nb + 1) and the
\* sample k/2, as histogramdd uses it: the number of edges <= sample, and a
\* sample on the rightmost edge is moved into the last bin.  0 and nb + 1
\* are the outliers.
\* (variant: a sample on the rightmost edge stays an outlier)
DigitizeNoRightEdge(k, nb) ==
    Cardinality({j \in 0..nb : 4 * j - 2 * nb <= k * nb})
Digitize(k, nb) ==
    LET c == Cardinality({j \in 0..nb : 4 * j - 2 * nb <= k * nb})
    IN  IF k = 2 THEN c - 1 ELSE c

\* np.histogram2d(a, b, bins=nb, range=[[-1, 1], [-1, 1]]): outliers of
\* either axis are dropped
Histogram2d(a, b, nb) ==
    LET bin(i) == << Digitize(a[i], nb) - 1, Digitize(b[i], nb) - 1 >>
        kept == {i \in 1..Len(a) :
                    Digitize(a[i], nb) \in 1..nb /\ Digitize(b[i], nb) \in 1..nb}
    IN  [bn \in {bin(i) : i \in kept} |-> Cardinality({i \in kept : bin(i) = bn})]

\* lines 127-132: cell coordinate of a flattened cell index
\* (variant: the strides are those of the grid without its ghost cells)
CellOfNoGhost(v0, icell) ==
    LET nx == v0.nx
        ny == v0.ny
        iz == icell \div (nx * ny)
        iy == (icell - iz * nx * ny) \div nx
        ix == icell - iz * nx * ny - iy * nx
    IN  [ix |-> ix, iy |-> iy, iz |-> iz]
CellOf(v0, icell) ==
    LET nx == v0.nx + 2
        ny == v0.ny + 2
        iz == icell \div (nx * ny)
        iy == (icell - iz * nx * ny) \div nx
        ix == icell - iz * nx * ny - iy * nx
    IN  [ix |-> ix, iy |-> iy, iz |-> iz]

\* lines 134-136, doubled: 2 * (origin + ((cell - 1) + (d + 1) * 0.5) * spacing)
Pos2(origin, cell, d, spacing) == 2 * origin + (2 * (cell - 1) + (d + 1)) * spacing

\* lines 138-146: position / smime within [min, max] on each axis
\* (variant: the upper bound of each axis is excluded)
InMaskHalfOpen(v0, p, pic, crn) ==
    LET c == CellOf(v0, p.icell)
        smime == Sqrt(pic.mime)
        x2 == Pos2(v0.x0, c.ix, p.dxyz[1], v0.dx)
        y2 == Pos2(v0.y0, c.iy, p.dxyz[2], v0.dy)
        z2 == Pos2(v0.z0, c.iz, p.dxyz[3], v0.dz)
    IN  /\ x2 >= 2 * smime * crn[1][1] /\ x2 < 2 * smime * crn[1][2]
        /\ y2 >= 2 * smime * crn[2][1] /\ y2 < 2 * smime * crn[2][2]
        /\ z2 >= 2 * smime * crn[3][1] /\ z2 < 2 * smime * crn[3][2]
InMask(v0, p, pic, crn) ==
    LET c == CellOf(v0, p.icell)
        smime == Sqrt(pic.mime)
        x2 == Pos2(v0.x0, c.ix, p.dxyz[1], v0.dx)
        y2 == Pos2(v0.y0, c.iy, p.dxyz[2], v0.dy)
        z2 == Pos2(v0.z0, c.iz, p.dxyz[3], v0.dz)
    IN  /\ x2 >= 2 * smime * crn[1][1] /\ x2 <= 2 * smime * crn[1][2]
        /\ y2 >= 2 * smime * crn[2][1] /\ y2 <= 2 * smime * crn[2][2]
        /\ z2 >= 2 * smime * crn[3][1] /\ z2 <= 2 * smime * crn[3][2]

\* ux[mask], uy[mask], uz[mask]: component k of the masked particles
RECURSIVE Masked(_, _, _, _, _)
Masked(v0, ptl, pic, crn, k) ==
    IF ptl = << >> THEN << >>
    ELSE IF InMask(v0, Head(ptl), pic, crn)
         THEN << Head(ptl).u[k] >> \o Masked(v0, Tail(ptl), pic, crn, k)
         ELSE Masked(v0, Tail(ptl), pic, crn, k)

calc_velocity_distribution(v0, pheader, ptl, pic, crn, nb) ==
    LET ux_d == Masked(v0, ptl, pic, crn, 1)
        uy_d == Masked(v0, ptl, pic, crn, 2)
        uz_d == Masked(v0, ptl, pic, crn, 3)
    IN  [xy |-> Histogram2d(uy_d, ux_d, nb),
         xz |-> Histogram2d(uz_d, ux_d, nb),
         yz |-> Histogram2d(uz_d, uy_d, nb)]

\* line 185 (variant: iz strided by tx instead of tx * ty)
MpiRankWrongStride(ix, iy, iz, tx, ty) == ix + iy * tx + iz * tx
MpiRank(ix, iy, iz, tx, ty) == ix + iy * tx + iz * tx * ty

\* The particles that occur in the modelled files.
Catalog ==
    << [dxyz |-> << 0, 0, 0 >>, icell |-> 17, u |-> << 1, 1, 1 >>],
       [dxyz |-> << 1, 0, 0 >>, icell |-> 18, u |-> << 2, -2, 0 >>],
       [dxyz |-> << -1, 0, 0 >>, icell |-> 17, u |-> << 3, 0, -1 >>],
       [dxyz |-> << 0, 0, 0 >>, icell |-> 18, u |-> << 1, 1, 1 >>] >>

\* The particle file of a rank as the simulation wrote it: a 2 x 1 x 1 grid
\* of unit cells whose origin is the rank's place in the topology, and
\* 0..MaxPtl particles of the catalog chosen by `seed`.
RankFile(rf, pic, rank) ==
    LET len == (rf.seed + rank) % (MaxPtl + 1)
        shift == rf.seed \div (MaxPtl + 1)
        data == [i \in 1..len |-> Catalog[((shift + rank + i) % Len(Catalog)) + 1]]
    IN  [kind |-> IF rf.bad.rank = rank THEN rf.bad.kind ELSE "ok",
         v0 |-> [nx |-> 2, ny |-> 1, nz |-> 1, dx |-> 1, dy |-> 1, dz |-> 1,
                 x0 |-> 2 * (rank % pic.topology_x),
                 y0 |-> (rank \div pic.topology_x) % pic.topology_y,
                 z0 |-> rank \div (pic.topology_x * pic.topology_y)],
         pheader |-> [size |-> ParticleItemSize, ndim |-> 1, dim |-> len],
         data |-> data]

\* lines 187-193, the body of the loop for one rank on the accumulators hs:
\* read_particle_data raises for a missing file (IOError) or a file cut in
\* its header (ValueError), calc_velocity_distribution may run out of memory
\* (MemoryError); the three += come after both calls.
\* (variant: hist_xy is added to before the binning has finished)
LoopBodyAccumulatesEarly(hs, rf, pic, crn, rank) ==
    LET f == RankFile(rf, pic, rank)
        vh == calc_velocity_distribution(f.v0, f.pheader, f.data, pic, crn, nbins_hist)
    IN  CASE f.kind = "missing" -> [raised |-> "IOError", hists |-> hs, vh |-> vh]
          [] f.kind = "short" -> [raised |-> "ValueError", hists |-> hs, vh |-> vh]
          [] f.kind = "nomem" ->
                [raised |-> "MemoryError",
                 hists |-> [hs EXCEPT !.xy = @ (+) vh.xy], vh |-> vh]
          [] OTHER ->
                [raised |-> None,
                 hists |-> [xy |-> hs.xy (+) vh.xy, xz |-> hs.xz (+) vh.xz,
                            yz |-> hs.yz (+) vh.yz],
                 vh |-> vh]
LoopBody(hs, rf, pic, crn, rank) ==
    LET f == RankFile(rf, pic, rank)
        vh == calc_velocity_distribution(f.v0, f.pheader, f.data, pic, crn, nbins_hist)
    IN  CASE f.kind = "missing" -> [raised |-> "IOError", hists |-> hs, vh |-> vh]
          [] f.kind = "short" -> [raised |-> "ValueError", hists |-> hs, vh |-> vh]
          [] f.kind = "nomem" -> [raised |-> "MemoryError", hists |-> hs, vh |-> vh]
          [] OTHER ->
                [raised |-> None,
                 hists |-> [xy |-> hs.xy (+) vh.xy, xz |-> hs.xz (+) vh.xz,
                            yz |-> hs.yz (+) vh.yz],
                 vh |-> vh]

\* lines 182-184: the loop variables after one more pass of the innermost
\* loop; ix past its range when the three loops are exhausted
Advance(t, mr) ==
    IF t.iz < mr[3][2] THEN [t EXCEPT !.iz = @ + 1]
    ELSE IF t.iy < mr[2][2] THEN [t EXCEPT !.iy = @ + 1, !.iz = mr[3][1]]
    ELSE [ix |-> t.ix + 1, iy |-> mr[2][1], iz |-> mr[3][1]]

LoopDone(t, mr) == t.ix > mr[1][2]

\* range(start, end + 1) of one axis
AxisRange(mr, a) == mr[a][1]..mr[a][2]

BlockSize(mr) ==
    Cardinality(AxisRange(mr, 1)) * Cardinality(AxisRange(mr, 2))
        * Cardinality(AxisRange(mr, 3))

\* The [start, end] pairs set_mpi_ranks gives for a topology of t ranks on
\* an axis: start <= end <= t - 1, or start = t with end clamped to t - 1
\* (an empty range).
AxisRanges(t) ==
    {r \in (0..(t - 1)) \X (0..(t - 1)) : r[1] <= r[2]} \cup {<< t, t - 1 >>}

\* the rank ids the loops build, in any order
BlockRanks(mr, pic) ==
    {MpiRank(ix, iy, iz, pic.topology_x, pic.topology_y) :
        ix \in AxisRange(mr, 1), iy \in AxisRange(mr, 2), iz \in AxisRange(mr, 3)}

\* mass ratio and box of a query: part of the domain, the box on a cell
\* boundary, nothing of the domain
Regions ==
    { [mime |-> 1, corners |-> << << 0, 1 >>, << -10, 10 >>, << -10, 10 >> >>],
      [mime |-> 4, corners |-> << << 0, 1 >>, << -10, 10 >>, << -10, 10 >> >>],
      [mime |-> 1, corners |-> << << 50, 60 >>, << -10, 10 >>, << -10, 10 >> >>] }

SeedValues == 0..5
FailureKinds == << "missing", "short", "nomem" >>
NoFailure == [rank |-> -1, kind |-> "ok"]

InitAggregate ==
    /\ pc = "start"
    /\ openHandles = {}
    /\ offset = 0
    /\ reads = << >>
    /\ result = None
    /\ err = None
    /\ \E tx, ty, tz \in 1..MaxTopo, reg \in Regions :
          /\ pic_info = [topology_x |-> tx, topology_y |-> ty, topology_z |-> tz,
                          mime |-> reg.mime]
          /\ corners = reg.corners
          /\ mpi_ranks \in AxisRanges(tx) \X AxisRanges(ty) \X AxisRanges(tz)
          /\ BlockSize(mpi_ranks) <= MaxBlock
          /\ BlockSize(mpi_ranks) = 0 =>
                 (mpi_ranks[2][1] = 0 /\ mpi_ranks[3][1] = 0 /\ reg.mime = 1)
          /\ \E seed \in SeedValues :
                \/ rankfiles = [seed |-> seed, bad |-> NoFailure]
                \/ \E r \in BlockRanks(mpi_ranks, pic_info) :
                      /\ Cardinality({q \in BlockRanks(mpi_ranks, pic_info) : q < r})
                            = seed % BlockSize(mpi_ranks)
                      /\ rankfiles = [seed |-> seed,
                                      bad |-> [rank |-> r,
                                               kind |-> FailureKinds[((r + seed) % 3) + 1]]]
    /\ loop = [ix |-> 0, iy |-> 0, iz |-> 0]
    /\ hist_xy = << >>
    /\ hist_xz = << >>
    /\ hist_yz = << >>
    /\ vhist = [xy |-> << >>, xz |-> << >>, yz |-> << >>]
    /\ visited = << >>
    /\ IdleParticle
    /\ IdleVdist
    /\ IdleSpectrum
    /\ IdleBox

\* lines 171-184: the zeroed accumulators and the first pass of the loops;
\* with an empty range on an axis the body never runs and the function ends
start_distribution ==
    /\ pc = "start"
    /\ hist_xy' = EmptyBag
    /\ hist_xz' = EmptyBag
    /\ hist_yz' = EmptyBag
    /\ loop' = [ix |-> mpi_ranks[1][1], iy |-> mpi_ranks[2][1], iz |-> mpi_ranks[3][1]]
    /\ pc' = IF BlockSize(mpi_ranks) = 0 THEN "returned" ELSE "loop"
    /\ UNCHANGED << openHandles, offset, reads, result, err, pic_info, mpi_ranks,
                    corners, rankfiles, vhist, visited, varsParticle, varsVdist, varsSpectrum,
                    varsBox >>

\* lines 185-193: one pass of the loop body, then the next loop variables
process_rank_file ==
    /\ pc = "loop"
    /\ LET rank == MpiRank(loop.ix, loop.iy, loop.iz,
                           pic_info.topology_x, pic_info.topology_y)
           r == LoopBody([xy |-> hist_xy, xz |-> hist_xz, yz |-> hist_yz],
                         rankfiles, pic_info, corners, rank)
       IN  /\ hist_xy' = r.hists.xy
           /\ hist_xz' = r.hists.xz
           /\ hist_yz' = r.hists.yz
           /\ IF r.raised # None
              THEN /\ pc' = "raised"
                   /\ err' = r.raised
                   /\ UNCHANGED << loop, vhist, visited >>
              ELSE /\ vhist' = r.vh
                   /\ visited' = Append(visited, rank)
                   /\ loop' = Advance(loop, mpi_ranks)
                   /\ pc' = IF LoopDone(Advance(loop, mpi_ranks), mpi_ranks)
                            THEN "returned" ELSE "loop"
                   /\ err' = err
    /\ UNCHANGED << openHandles, offset, reads, result, pic_info, mpi_ranks,
                    corners, rankfiles, varsParticle, varsVdist, varsSpectrum, varsBox >>

NextAggregate ==
    \/ start_distribution
    \/ process_rank_file

SpecAggregate == InitAggregate /\ [][NextAggregate]_vars

--------------------------------------------------------------------------
(* Claims about binning and aggregation (SpecAggregate) *)

\* the three histograms of the file of one rank
FileHists(rank) ==
    LET f == RankFile(rankfiles, pic_info, rank)
    IN  calc_velocity_distribution(f.v0, f.pheader, f.data, pic_info, corners, nbins_hist)

\* the element-wise sum of the per-file histograms, files taken in `order`
RECURSIVE SumInOrder(_)
SumInOrder(order) ==
    IF order = << >>
    THEN [xy |-> EmptyBag, xz |-> EmptyBag, yz |-> EmptyBag]
    ELSE LET prev == SumInOrder(SubSeq(order, 1, Len(order) - 1))
             h == FileHists(order[Len(order)])
         IN  [xy |-> prev.xy (+) h.xy, xz |-> prev.xz (+) h.xz, yz |-> prev.yz (+) h.yz]

\* every order of the elements of S
RECURSIVE Orders(_)
Orders(S) ==
    IF S = {} THEN {<< >>}
    ELSE UNION {{<< x >> \o o : o \in Orders(S \ {x})} : x \in S}

\* the rank ids of the block, from the claim's formula
ClaimedRanks ==
    {ix + iy * pic_info.topology_x + iz * pic_info.topology_x * pic_info.topology_y :
        ix \in mpi_ranks[1][1]..mpi_ranks[1][2],
        iy \in mpi_ranks[2][1]..mpi_ranks[2][2],
        iz \in mpi_ranks[3][1]..mpi_ranks[3][2]}

\* C6: when get_particle_distribution has run through its loops, the file of
\* every rank ix + iy*tx + iz*tx*ty of the block was decoded exactly once,
\* and each accumulator is the element-wise sum of the per-file histograms,
\* the same for every order in which the files could be processed.
C6_OrderIndependentSum ==
    pc = "returned" =>
        /\ Len(visited) = BlockSize(mpi_ranks)
        /\ \A i, j \in 1..Len(visited) : i # j => visited[i] # visited[j]
        /\ {visited[i] : i \in 1..Len(visited)} = ClaimedRanks
        /\ \A order \in Orders(ClaimedRanks) :
              LET sum == SumInOrder(order)
              IN  hist_xy = sum.xy /\ hist_xz = sum.xz /\ hist_yz = sum.yz

C6_Witness ==
    /\ pc = "returned"
    /\ Len(visited) = 4
    /\ pic_info.topology_z = 2
    /\ mpi_ranks[3] = << 0, 1 >>
    /\ BagCardinality(hist_xy) >= 3
    /\ \E i, j \in 1..4 : FileHists(visited[i]).xy # FileHists(visited[j]).xy

\* the rank whose file the loop body was processing
CurrentRank ==
    loop.ix + loop.iy * pic_info.topology_x
        + loop.iz * pic_info.topology_x * pic_info.topology_y

\* C7: when decoding or binning a file fails, each accumulator holds exactly
\* the sum of the histograms of the files processed before it: nothing of
\* the failing file, and the same files in all three.
C7_FailureLeavesAccumulators ==
    pc = "raised" =>
        LET sum == SumInOrder(visited)
        IN  /\ hist_xy = sum.xy
            /\ hist_xz = sum.xz
            /\ hist_yz = sum.yz
            /\ \A i \in 1..Len(visited) : visited[i] # CurrentRank

C7_Witness ==
    /\ pc = "raised"
    /\ err = "MemoryError"
    /\ Len(visited) >= 1
    /\ hist_xy # EmptyBag
    /\ FileHists(CurrentRank).xy # EmptyBag

\* the bin (from 0) of nbins_hist equal bins over [-1, 1] that contains the
\* velocity k/2: edge[b] <= k/2 < edge[b+1], the last bin closed on the right
ClaimedBin(k) ==
    CHOOSE b \in 0..(nbins_hist - 1) :
        /\ 4 * b - 2 * nbins_hist <= k * nbins_hist
        /\ \/ k * nbins_hist < 4 * (b + 1) - 2 * nbins_hist
           \/ (b = nbins_hist - 1 /\ k = 2)

\* histogram h counts exactly the masked particles of the file f whose
\* components a and b lie in [-1, 1], each once, in its bin
CountsOnce(h, f, a, b) ==
    LET ptl == f.data
        counted == {i \in 1..Len(ptl) :
                       /\ InMask(f.v0, ptl[i], pic_info, corners)
                       /\ ptl[i].u[a] \in (-2)..2
                       /\ ptl[i].u[b] \in (-2)..2}
        bin(i) == << ClaimedBin(ptl[i].u[a]), ClaimedBin(ptl[i].u[b]) >>
    IN  /\ BagCardinality(h) = Cardinality(counted)
        /\ \A i \in counted :
              CopiesIn(bin(i), h) = Cardinality({j \in counted : bin(j) = bin(i)})

\* C8: the histograms of a decoded file count each particle inside the mask
\* with its velocity pair in [-1,1]x[-1,1] once, in the bin of its pair, and
\* nothing else; one masked particle with u = (0.5, 0.5, 0.5) gives a single
\* 1 in bin (48, 48) of each histogram; no particle in the region gives three
\* all-zero histograms and no error.
C8_EachParticleOncePerProjection ==
    Len(visited) >= 1 =>
        LET f == RankFile(rankfiles, pic_info, visited[Len(visited)])
            inside == {i \in 1..Len(f.data) : InMask(f.v0, f.data[i], pic_info, corners)}
            single == SetToBag({<< 48, 48 >>})
        IN  /\ CountsOnce(vhist.xy, f, 2, 1)
            /\ CountsOnce(vhist.xz, f, 3, 1)
            /\ CountsOnce(vhist.yz, f, 3, 2)
            /\ (Len(f.data) = 1 /\ inside = {1} /\ f.data[1].u = << 1, 1, 1 >>) =>
                  (vhist.xy = single /\ vhist.xz = single /\ vhist.yz = single)
            /\ inside = {} =>
                  (vhist.xy = EmptyBag /\ vhist.xz = EmptyBag /\ vhist.yz = EmptyBag)

C8_Witness ==
    /\ pc = "returned"
    /\ Len(visited) = 1
    /\ LET f == RankFile(rankfiles, pic_info, visited[1])
       IN  /\ Len(f.data) = 1
           /\ f.data[1].u = << 1, 1, 1 >>
           /\ InMask(f.v0, f.data[1], pic_info, corners)
    /\ hist_xy = SetToBag({<< 48, 48 >>})
    /\ hist_xz = SetToBag({<< 48, 48 >>})
    /\ hist_yz = SetToBag({<< 48, 48 >>})


--------------------------------------------------------------------------
(* Spectrum routines of spectrum_fitting.py.                              *)
(*                                                                        *)
(* An energy or flux array is a sequence of whole numbers.  Energies are  *)
(* powers of ten, so that log10 is exact.                                 *)

\* Bound: the largest number of bins of a modelled energy / flux array.
MaxBins == 3

RECURSIVE Pow10(_)
Pow10(k) == IF k = 0 THEN 1 ELSE 10 * Pow10(k - 1)

\* math.log10 / np.log10 of a power of ten
Log10(x) == CHOOSE k \in 0..8 : Pow10(k) = x

\* max(ene), min(ene)
SeqMax(a) == CHOOSE x \in {a[k] : k \in 1..Len(a)} : \A k \in 1..Len(a) : a[k] <= x
SeqMin(a) == CHOOSE x \in {a[k] : k \in 1..Len(a)} : \A k \in 1..Len(a) : x <= a[k]

--------------------------------------------------------------------------
(* accumulated_particle_info.  nacc_ene and eacc_ene are kept in halves   *)
(* (the stored number is twice the value); the returned arrays are the    *)
(* numerators nacc, eacc over the common denominator den = 2 * nbins.     *)

AccumEnergies == {1, 10, 100}
AccumFluxes == {-1, 0, 1, 2}

\* line 57: f[i] * (ene[i] + ene[i - 1]) * 0.5, in halves; k = i + 1
\* (variant: the width of the bin in place of the sum of its ends)
NaccTermWidth(fl, en, k) == fl[k] * (en[k] - en[k - 1])
NaccTerm(fl, en, k) == fl[k] * (en[k] + en[k - 1])

\* lines 58-60: 0.5 * f[i] * (ene[i] - ene[i - 1]) * (ene[i] + ene[i - 1]),
\* in halves; k = i + 1
\* (variant: the ends of the bin exchanged in the difference)
EaccTermReversed(fl, en, k) == fl[k] * (en[k - 1] - en[k]) * (en[k] + en[k - 1])
EaccTerm(fl, en, k) == fl[k] * (en[k] - en[k - 1]) * (en[k] + en[k - 1])

\* line 51: dlogE * nbins
\* (variant: the last and the first energy in place of max and min)
DlogEFromEnds(en) == Log10(en[Len(en)]) - Log10(en[1])
DlogETimesNbins(en) == Log10(SeqMax(en)) - Log10(SeqMin(en))

InitAccum ==
    /\ pc = "accum_enter"
    /\ openHandles = {}
    /\ offset = 0
    /\ reads = << >>
    /\ result = None
    /\ err = None
    /\ \E n \in 0..MaxBins :
          /\ ene \in [1..n -> AccumEnergies]
          /\ flux \in [1..n -> AccumFluxes]
    /\ i_bin = 0
    /\ nacc_ene = << >>
    /\ eacc_ene = << >>
    /\ fitcalls = << >>
    /\ IdlePowerLaw
    /\ IdleDecompose
    /\ IdleParticle
    /\ IdleVdist
    /\ IdleAggregate
    /\ IdleBox

\* lines 50-55: nbins, dlogE (max of an empty array raises ValueError), the
\* zeroed arrays and their elements 0
accum_enter ==
    /\ pc = "accum_enter"
    /\ IF Len(flux) = 0
       THEN /\ pc' = "raised" /\ err' = "ValueError"
            /\ UNCHANGED << i_bin, nacc_ene, eacc_ene >>
       ELSE /\ nacc_ene' = [k \in 1..Len(flux) |->
                               IF k = 1 THEN 2 * flux[1] * ene[1] ELSE 0]
            /\ eacc_ene' = [k \in 1..Len(flux) |->
                               IF k = 1 THEN flux[1] * ene[1] * ene[1] ELSE 0]
            /\ i_bin' = 1
            /\ pc' = "accum_loop"
            /\ err' = err
    /\ UNCHANGED << openHandles, offset, reads, result, ene, flux, fitcalls,
                    extend, estart, eend, popt, caller, specfile, kwargs, fnorm,
                    spect, ct, fthermal, fnonthermal, fthermal1, fnonthermal1,
                    varsParticle, varsVdist, varsAggregate, varsBox >>

\* lines 56-60: one pass of `for i in range(1, nbins)`
accum_step ==
    /\ pc = "accum_loop"
    /\ i_bin < Len(flux)
    /\ nacc_ene' = [nacc_ene EXCEPT ![i_bin + 1] =
                       NaccTerm(flux, ene, i_bin + 1) + nacc_ene[i_bin]]
    /\ eacc_ene' = [eacc_ene EXCEPT ![i_bin + 1] =
                       EaccTerm(flux, ene, i_bin + 1) + eacc_ene[i_bin]]
    /\ i_bin' = i_bin + 1
    /\ UNCHANGED << pc, openHandles, offset, reads, result, err, ene, flux, fitcalls,
                    extend, estart, eend, popt, caller, specfile, kwargs, fnorm,
                    spect, ct, fthermal, fnonthermal, fthermal1, fnonthermal1,
                    varsParticle, varsVdist, varsAggregate, varsBox >>

\* lines 61-63: both arrays times dlogE, return (nacc_ene, eacc_ene)
accum_return ==
    /\ pc = "accum_loop"
    /\ i_bin = Len(flux)
    /\ result' = [nacc |-> [k \in 1..Len(flux) |-> nacc_ene[k] * DlogETimesNbins(ene)],
                  eacc |-> [k \in 1..Len(flux) |-> eacc_ene[k] * DlogETimesNbins(ene)],
                  den |-> 2 * Len(flux)]
    /\ pc' = "returned"
    /\ UNCHANGED << openHandles, offset, reads, err, ene, flux, i_bin, nacc_ene,
                    eacc_ene, fitcalls,
                    extend, estart, eend, popt, caller, specfile, kwargs, fnorm,
                    spect, ct, fthermal, fnonthermal, fthermal1, fnonthermal1,
                    varsParticle, varsVdist, varsAggregate, varsBox >>

NextAccum ==
    \/ accum_enter
    \/ accum_step
    \/ accum_return

SpecAccum == InitAccum /\ [][NextAccum]_vars

--------------------------------------------------------------------------
(* Claims about accumulated_particle_info (SpecAccum) *)

NonDecreasing(a) == \A k \in 2..Len(a) : a[k] >= a[k - 1]
Increasing(a) == \A k \in 2..Len(a) : a[k] > a[k - 1]
AllAbove(a, low) == \A k \in 1..Len(a) : a[k] > low

\* C14: for increasing positive energies and strictly positive flux both
\* returned sequences are non-decreasing (element i >= element i - 1 for
\* every i >= 1).
C14_AccumNonDecreasing ==
    (pc = "returned" /\ Increasing(ene) /\ AllAbove(ene, 0) /\ AllAbove(flux, 0)) =>
        /\ NonDecreasing(result.nacc)
        /\ NonDecreasing(result.eacc)

C14_Witness ==
    /\ pc = "returned"
    /\ ene = << 1, 10, 100 >>
    /\ flux = << 2, 1, 2 >>
    /\ result.den = 6
    /\ result.nacc[2] > result.nacc[1]
    /\ result.eacc[3] > result.eacc[2]

\* C15 as stated: for non-negative flux, whatever the order of the energy
\* bins, both returned sequences are non-decreasing.
C15_NonDecreasingAnyOrder ==
    (pc = "returned" /\ AllAbove(flux, -1)) =>
        /\ NonDecreasing(result.nacc)
        /\ NonDecreasing(result.eacc)

\* C15 amended: for non-negative flux the accumulated count is
\* non-decreasing whatever the order of the (positive) energy bins, and the
\* accumulated energy is non-decreasing when the energy bins are
\* non-decreasing; at a bin whose energy is below the one before and whose
\* flux is positive the accumulated energy decreases.
C15_NonDecreasingForOrderedEnergy ==
    (pc = "returned" /\ AllAbove(flux, -1)) =>
        /\ NonDecreasing(result.nacc)
        /\ NonDecreasing(ene) => NonDecreasing(result.eacc)
        /\ \A k \in 2..Len(ene) :
              (ene[k] < ene[k - 1] /\ flux[k] > 0) =>
                  result.eacc[k] < result.eacc[k - 1]

C15_Witness ==
    /\ pc = "returned"
    /\ ene = << 10, 1, 100 >>
    /\ flux = << 1, 1, 0 >>
    /\ NonDecreasing(result.nacc)
    /\ result.eacc[2] < result.eacc[1]


--------------------------------------------------------------------------
(* power_law_fit.  The fitted line is kept as the numerators slope and    *)
(* intercept over the common denominator den.                             *)

\* a[i] is valid for -len <= i < len, else IndexError
PyIndexOK(n, i) == -n <= i /\ i < n

\* the bound of a slice a[start:stop]: negative counts from the end, and
\* both ends are clipped to the array
PyClamp(n, i) ==
    IF i < 0 THEN (IF i + n < 0 THEN 0 ELSE i + n) ELSE (IF i > n THEN n ELSE i)

\* a[start:stop]
PySlice(a, start, stop) ==
    LET lo == PyClamp(Len(a), start)
        hi == PyClamp(Len(a), stop)
    IN  IF hi <= lo THEN << >> ELSE SubSeq(a, lo + 1, hi)

\* np.argmax(a): the first index (from 0) of the maximum
ArgMax(a) ==
    CHOOSE i \in 0..(Len(a) - 1) :
        /\ a[i + 1] = SeqMax(a)
        /\ \A j \in 0..(i - 1) : a[j + 1] < a[i + 1]

RECURSIVE SeqSum(_)
SeqSum(a) == IF a = << >> THEN 0 ELSE Head(a) + SeqSum(Tail(a))

NoFit == [slope |-> 0, intercept |-> 0, den |-> 0]

\* the least-squares line through the points (xs[k], ys[k])
LeastSquaresLine(xs, ys) ==
    LET m == Len(xs)
        sx == SeqSum(xs)
        sy == SeqSum(ys)
        sxx == SeqSum([k \in 1..m |-> xs[k] * xs[k]])
        sxy == SeqSum([k \in 1..m |-> xs[k] * ys[k]])
    IN  [slope |-> m * sxy - sx * sy, intercept |-> sy * sxx - sx * sxy,
         den |-> m * sxx - sx * sx]

\* curve_fit(func_line, np.log10(xw), np.log10(fw)): np.log10 of a value
\* <= 0 is -inf or nan and curve_fit (check_finite) raises ValueError on it;
\* no point raises ValueError or TypeError (by the version of scipy), one
\* point is fewer than the two parameters (TypeError); else the line.
\* (variant: the points whose logarithm is not finite are left out)
CurveFitLineDropsNonFinite(xw, fw) ==
    LET keep == {k \in 1..Len(fw) : fw[k] > 0 /\ xw[k] > 0}
        pos(k) == Cardinality({j \in keep : j <= k})
        at(r) == CHOOSE k \in keep : pos(k) = r
        xs == [r \in 1..Cardinality(keep) |-> Log10(xw[at(r)])]
        ys == [r \in 1..Cardinality(keep) |-> Log10(fw[at(r)])]
    IN  IF Len(xs) = 0 THEN [raised |-> {"ValueError", "TypeError"}, popt |-> NoFit]
        ELSE IF Len(xs) = 1 THEN [raised |-> {"TypeError"}, popt |-> NoFit]
        ELSE [raised |-> {}, popt |-> LeastSquaresLine(xs, ys)]
CurveFitLine(xw, fw) ==
    IF \E k \in 1..Len(fw) : fw[k] <= 0 \/ xw[k] <= 0
    THEN [raised |-> {"ValueError"}, popt |-> NoFit]
    ELSE IF Len(fw) = 0 THEN [raised |-> {"ValueError", "TypeError"}, popt |-> NoFit]
    ELSE IF Len(fw) = 1 THEN [raised |-> {"TypeError"}, popt |-> NoFit]
    ELSE [raised |-> {},
          popt |-> LeastSquaresLine([k \in 1..Len(xw) |-> Log10(xw[k])],
                                    [k \in 1..Len(fw) |-> Log10(fw[k])])]

\* the log-scale energy bins of a spectrum of n bins
EnergyGrid(n) == [k \in 1..n |-> Pow10(k - 1)]

PowerLawFluxes == {-1, 0, 1, 10, 100, 1000}
\* the argument `offset`: from a start before bin 0 to one past the peak
OffsetValues == (-MaxBins)..1
ExtendValues == 0..(MaxBins + 1)

InitPowerLaw ==
    /\ pc = "plf_window"
    /\ openHandles = {}
    /\ reads = << >>
    /\ result = None
    /\ err = None
    /\ \E n \in 0..MaxBins :
          /\ ene = EnergyGrid(n)
          /\ flux \in [1..n -> PowerLawFluxes]
    /\ offset \in OffsetValues
    /\ extend \in ExtendValues
    /\ estart = 0
    /\ eend = 0
    /\ popt = NoFit
    /\ fitcalls = << >>
    /\ i_bin = 0 /\ nacc_ene = << >> /\ eacc_ene = << >>
    /\ IdleDecompose
    /\ IdleParticle
    /\ IdleVdist
    /\ IdleAggregate
    /\ IdleBox

\* lines 768-770: estart and eend (np.argmax of an empty array raises
\* ValueError)
plf_window ==
    /\ pc = "plf_window"
    /\ IF Len(flux) = 0
       THEN pc' = "raised" /\ err' = "ValueError" /\ UNCHANGED << estart, eend >>
       ELSE /\ estart' = ArgMax(flux) + offset
            /\ eend' = ArgMax(flux) + offset + extend
            /\ pc' = "plf_curve_fit"
            /\ err' = err
    /\ UNCHANGED << openHandles, offset, reads, result, ene, flux, extend, popt,
                    fitcalls, i_bin, nacc_ene, eacc_ene,
                    caller, specfile, kwargs, fnorm, spect, ct, fthermal,
                    fnonthermal, fthermal1, fnonthermal1,
                    varsParticle, varsVdist, varsAggregate, varsBox >>

\* lines 771-773: popt, pcov = curve_fit(...) on the slices [estart:eend]
plf_curve_fit ==
    /\ pc = "plf_curve_fit"
    /\ LET xw == PySlice(ene, estart, eend)
           fw == PySlice(flux, estart, eend)
           r == CurveFitLine(xw, fw)
       IN  IF r.raised = {}
           THEN /\ popt' = r.popt
                /\ fitcalls' = Append(fitcalls, fw)
                /\ pc' = "plf_print"
                /\ err' = err
           ELSE /\ err' \in r.raised
                /\ pc' = "raised"
                /\ UNCHANGED << popt, fitcalls >>
    /\ UNCHANGED << openHandles, offset, reads, result, ene, flux, extend, estart,
                    eend, i_bin, nacc_ene, eacc_ene,
                    caller, specfile, kwargs, fnorm, spect, ct, fthermal,
                    fnonthermal, fthermal1, fnonthermal1,
                    varsParticle, varsVdist, varsAggregate, varsBox >>

\* lines 774-777: print ..., ene[estart], ene[eend]
plf_print ==
    /\ pc = "plf_print"
    /\ IF PyIndexOK(Len(ene), estart) /\ PyIndexOK(Len(ene), eend)
       THEN pc' = "plf_return" /\ err' = err
       ELSE pc' = "raised" /\ err' = "IndexError"
    /\ UNCHANGED << openHandles, offset, reads, result, ene, flux, extend, estart,
                    eend, popt, fitcalls, i_bin, nacc_ene, eacc_ene,
                    caller, specfile, kwargs, fnorm, spect, ct, fthermal,
                    fnonthermal, fthermal1, fnonthermal1,
                    varsParticle, varsVdist, varsAggregate, varsBox >>

\* lines 778-795: fpower over all of ene (kept as its logarithm, the
\* numerator over popt.den), the fractions of the window (of them the
\* energies ene[estart:eend] handed to accumulated_particle_info are kept),
\* return power_fit
plf_return ==
    /\ pc = "plf_return"
    /\ result' = [fpower |-> [k \in 1..Len(ene) |->
                                 popt.slope * Log10(ene[k]) + popt.intercept],
                  es |-> estart, ee |-> eend, params |-> popt,
                  fraction_of |-> PySlice(ene, estart, eend)]
    /\ pc' = "returned"
    /\ UNCHANGED << openHandles, offset, reads, err, ene, flux, extend, estart,
                    eend, popt, fitcalls, i_bin, nacc_ene, eacc_ene,
                    caller, specfile, kwargs, fnorm, spect, ct, fthermal,
                    fnonthermal, fthermal1, fnonthermal1,
                    varsParticle, varsVdist, varsAggregate, varsBox >>

NextPowerLaw ==
    \/ plf_window
    \/ plf_curve_fit
    \/ plf_print
    \/ plf_return

SpecPowerLaw == InitPowerLaw /\ [][NextPowerLaw]_vars


--------------------------------------------------------------------------
(* Claims about power_law_fit (SpecPowerLaw) *)

\* f is C * ene^k at every bin, for C = 10^c
IsPowerLaw(c, k) ==
    \A i \in 1..Len(flux) :
        flux[i] > 0 /\ Log10(flux[i]) = c + k * Log10(ene[i])

PowerLawEnded == pc \in {"returned", "raised"}

\* the window has been computed
WindowSet == pc \notin {"plf_window"} /\ Len(flux) > 0

\* C16: for a flux that is exactly C * energy^k at every bin and a window
\* that is the whole array (start index 0, end index the array length)
\* power_law_fit returns a fit whose slope is k and whose intercept is
\* log10(C).
C16_ExactPowerLawRecovered ==
    \A c \in 0..3, k \in (-2)..2 :
        (PowerLawEnded /\ Len(flux) >= 2 /\ IsPowerLaw(c, k)
            /\ estart = 0 /\ eend = Len(ene)) =>
            /\ pc = "returned"
            /\ result.params.den > 0
            /\ result.params.slope = k * result.params.den
            /\ result.params.intercept = c * result.params.den

\* C17: when the window [argmax(f) + offset, argmax(f) + offset + extend)
\* ends past the end of the array, no fit is run (on a shortened window or
\* any other), no result is returned and the call ends in an error.
C17_NoFitPastTheEnd ==
    (WindowSet /\ eend > Len(ene)) =>
        /\ fitcalls = << >>
        /\ result = None
        /\ PowerLawEnded => pc = "raised"

\* the bins of the array in the window [estart, eend), for estart >= 0
WindowBins == {i \in 0..(Len(flux) - 1) : estart <= i /\ i < eend}

--------------------------------------------------------------------------
(* Spectrum files and their callers: get_energy_distribution,             *)
(* read_energy_distribution, plot_spectrum, calc_nonthermal_fraction.     *)
(* A flux is a fraction n / d (Float, Quot).                              *)

\* Bound: the largest nx, ny, nz and nppc of a modelled pic_info.
MaxCells == 2

varsAccumLocals == << i_bin, nacc_ene, eacc_ene >>
varsPowerLawLocals == << extend, estart, eend, popt >>

CallerValues == {"read_energy_distribution", "plot_spectrum", "calc_nonthermal_fraction"}

\* the number of frames 1..frames whose spectrum file exists
FrameCounts == 0..2

\* pic_info.mime of the modelled runs
SpectrumMimes == {1, 4}

\* The table of a spectrum file of n rows: linear energy, linear flux, log
\* energy, log flux.  seed varies the fluxes.
SpectrumTable(n, seed) ==
    [elin |-> [k \in 1..n |-> k],
     flin |-> [k \in 1..n |-> k + seed],
     elog |-> EnergyGrid(n),
     flog |-> [k \in 1..n |-> 2 * (n - k) + seed]]

\* x - y
FracMinus(x, y) ==
    IF x.d = y.d THEN [n |-> x.n - y.n, d |-> x.d]
    ELSE [n |-> x.n * y.d - y.n * x.d, d |-> x.d * y.d]

\* flog - fthermal, element by element
\* (variant: the thermal part minus the flux)
FluxMinusSwapped(a, b) == [k \in 1..Len(a) |-> FracMinus(b[k], a[k])]
FluxMinus(a, b) == [k \in 1..Len(a) |-> FracMinus(a[k], b[k])]

\* fit_thermal_core(ene, fl): curve_fit of a Maxwellian either raises
\* RuntimeError (no convergence) or gives the parameters of a curve, which
\* is evaluated over all of ene.  The curve is one of: zero at every bin,
\* the flux itself, one unit at every bin.
ThermalShapes == {"zero", "all", "unit"}
ThermalCurve(shape, fl) ==
    [k \in 1..Len(fl) |->
        CASE shape = "zero" -> [n |-> 0, d |-> fl[k].d]
          [] shape = "all" -> fl[k]
          [] OTHER -> [n |-> 1, d |-> fl[k].d]]

\* lines 486-489, 267, 726 and 733: the file name for a frame
SpectrumFileName(who, sp, frame) ==
    IF who = "read_energy_distribution" /\ sp # "e"
    THEN << "spectrum", "h", frame >>
    ELSE << "spectrum", sp, frame >>

\* line 490: ntot of read_energy_distribution
ReadEnergyNtot(pic) == pic.nx * pic.ny + pic.nz * pic.nppc

\* lines 268 and 724: fnorm of plot_spectrum, n0 of calc_nonthermal_fraction
CellsTimesNppc(pic) == pic.nx * pic.ny * pic.nz * pic.nppc

InitSpectrum ==
    /\ pc = "enter"
    /\ openHandles = {}
    /\ offset = 0
    /\ reads = << >>
    /\ result = None
    /\ err = None
    /\ caller \in CallerValues
    /\ species \in SpeciesValues
    /\ pic_info \in [nx : 1..MaxCells, ny : 1..MaxCells, nz : 1..MaxCells,
                     nppc : 1..MaxCells, mime : SpectrumMimes]
    /\ specfile \in [frames : FrameCounts, rows : 0..MaxBins, seed : {0, 1}]
    /\ kwargs \in [is_power : BOOLEAN]
    /\ caller # "plot_spectrum" => (pic_info.mime = 1 /\ kwargs.is_power = FALSE)
    /\ caller # "calc_nonthermal_fraction" => specfile.frames <= 1
    /\ fnorm = 0
    /\ spect = [elin |-> << >>, flin |-> << >>, elog |-> << >>, flog |-> << >>]
    /\ ct = 0
    /\ fthermal = << >>
    /\ fnonthermal = << >>
    /\ fthermal1 = << >>
    /\ fnonthermal1 = << >>
    /\ fitcalls = << >>
    /\ f2d = None /\ f1d = None /\ nbins = None /\ opened = << >>
    /\ IdleAccum
    /\ IdlePowerLaw
    /\ IdleParticle
    /\ IdleBinning
    /\ IdleBox

\* lines 477-490: the file name and ntot
read_energy_distribution_enter ==
    /\ pc = "enter"
    /\ caller = "read_energy_distribution"
    /\ fnorm' = ReadEnergyNtot(pic_info)
    /\ ct' = 1
    /\ pc' = "get_energy_distribution"
    /\ UNCHANGED << openHandles, offset, reads, result, err, ene, flux, caller,
                    specfile, kwargs, spect, fthermal, fnonthermal, fthermal1,
                    fnonthermal1, fitcalls, varsAccumLocals, varsPowerLawLocals,
                    varsParticle, varsVdist, varsAggregate, varsBox >>

\* lines 255-273: the file name, fnorm, and the return when the file of
\* frame ct (1 here) is missing
plot_spectrum_enter ==
    /\ pc = "enter"
    /\ caller = "plot_spectrum"
    /\ fnorm' = CellsTimesNppc(pic_info)
    /\ ct' = 1
    /\ pc' = IF specfile.frames >= 1 THEN "get_energy_distribution" ELSE "returned"
    /\ UNCHANGED << openHandles, offset, reads, result, err, ene, flux, caller,
                    specfile, kwargs, spect, fthermal, fnonthermal, fthermal1,
                    fnonthermal1, fitcalls, varsAccumLocals, varsPowerLawLocals,
                    varsParticle, varsVdist, varsAggregate, varsBox >>

\* lines 704-730 (for one run): n0, ct = 1, the first test of the loop
calc_nonthermal_fraction_enter ==
    /\ pc = "enter"
    /\ caller = "calc_nonthermal_fraction"
    /\ fnorm' = CellsTimesNppc(pic_info)
    /\ ct' = 1
    /\ pc' = IF specfile.frames >= 1 THEN "get_energy_distribution" ELSE "cn_finish"
    /\ UNCHANGED << openHandles, offset, reads, result, err, ene, flux, caller,
                    specfile, kwargs, spect, fthermal, fnonthermal, fthermal1,
                    fnonthermal1, fitcalls, varsAccumLocals, varsPowerLawLocals,
                    varsParticle, varsVdist, varsAggregate, varsBox >>


\* lines 393-417 and 509-528: read_spectrum_data (a file that cannot be
\* opened is reported and None is returned, which data[:, 0] cannot index:
\* TypeError; np.genfromtxt of an empty file raises IOError, with f left
\* open, or gives an empty array by the version of numpy; an array of no or
\* one row has one dimension and data[:, 0] raises IndexError), then the
\* four columns with flog /= fnorm
get_energy_distribution ==
    /\ pc = "get_energy_distribution"
    /\ opened' = Append(opened, SpectrumFileName(caller, species, ct))
    /\ LET t == SpectrumTable(specfile.rows, specfile.seed)
       IN  IF specfile.frames < ct
           THEN /\ pc' = "raised" /\ err' = "TypeError"
                /\ UNCHANGED << spect, openHandles >>
           ELSE IF specfile.rows <= 1
           THEN /\ pc' = "raised"
                /\ \/ err' = "IndexError" /\ openHandles' = openHandles
                   \/ /\ specfile.rows = 0
                      /\ err' = "IOError"
                      /\ openHandles' = openHandles \cup {"f"}
                /\ UNCHANGED spect
           ELSE /\ spect' = [elin |-> [k \in 1..specfile.rows |-> Float(t.elin[k])],
                             flin |-> [k \in 1..specfile.rows |-> Float(t.flin[k])],
                             elog |-> [k \in 1..specfile.rows |-> Float(t.elog[k])],
                             flog |-> [k \in 1..specfile.rows |->
                                          Quot(Float(t.flog[k]), fnorm)]]
                /\ pc' = CASE caller = "read_energy_distribution" -> "return_fenergy"
                           [] caller = "plot_spectrum" -> "ion_flux"
                           [] OTHER -> "cn_fit"
                /\ UNCHANGED << err, openHandles >>
    /\ UNCHANGED << offset, reads, result, ene, flux, caller, specfile, kwargs,
                    fnorm, ct, fthermal, fnonthermal, fthermal1, fnonthermal1,
                    fitcalls, varsAccumLocals, varsPowerLawLocals, species, f2d,
                    f1d, nbins, varsParticle, varsAggregate, varsBox >>

\* lines 492-495: return fene
return_fenergy ==
    /\ pc = "return_fenergy"
    /\ result' = [species |-> species, elin |-> spect.elin, flin |-> spect.flin,
                  elog |-> spect.elog, flog |-> spect.flog]
    /\ pc' = "returned"
    /\ UNCHANGED << openHandles, offset, reads, err, varsSpectrum,
                    varsParticle, varsVdist, varsAggregate, varsBox >>

\* lines 274-284: for species 'h', flog /= pic_info.mime; the normalized
\* energies and the first curve of the plot
ion_flux ==
    /\ pc = "ion_flux"
    /\ spect' = IF species = "h"
                THEN [spect EXCEPT !.flog =
                         [k \in 1..Len(spect.flog) |-> Quot(spect.flog[k], pic_info.mime)]]
                ELSE spect
    /\ pc' = "fit_thermal_core"
    /\ UNCHANGED << openHandles, offset, reads, result, err, ene, flux, caller,
                    specfile, kwargs, fnorm, ct, fthermal, fnonthermal, fthermal1,
                    fnonthermal1, fitcalls, varsAccumLocals, varsPowerLawLocals,
                    varsParticle, varsVdist, varsAggregate, varsBox >>

\* line 285: fthermal = fit_thermal_core(elog, flog); nothing catches the
\* RuntimeError of a fit that does not converge
fit_thermal_core_first ==
    /\ pc = "fit_thermal_core"
    /\ fitcalls' = Append(fitcalls, spect.flog)
    /\ \/ /\ pc' = "raised" /\ err' = "RuntimeError"
          /\ UNCHANGED fthermal
       \/ \E shape \in ThermalShapes :
             /\ fthermal' = ThermalCurve(shape, spect.flog)
             /\ pc' = "fit_remainder"
             /\ err' = err
    /\ UNCHANGED << openHandles, offset, reads, result, ene, flux, caller,
                    specfile, kwargs, fnorm, spect, ct, fnonthermal, fthermal1,
                    fnonthermal1, varsAccumLocals, varsPowerLawLocals,
                    varsParticle, varsVdist, varsAggregate, varsBox >>

\* lines 286-288: fnonthermal, fthermal1 = fit_thermal_core(elog,
\* fnonthermal), fnonthermal1
fit_remainder ==
    /\ pc = "fit_remainder"
    /\ fnonthermal' = FluxMinus(spect.flog, fthermal)
    /\ fitcalls' = Append(fitcalls, fnonthermal')
    /\ \/ /\ pc' = "raised" /\ err' = "RuntimeError"
          /\ UNCHANGED << fthermal1, fnonthermal1 >>
       \/ \E shape \in ThermalShapes :
             /\ fthermal1' = ThermalCurve(shape, fnonthermal')
             /\ fnonthermal1' = FluxMinus(fnonthermal', fthermal1')
             /\ pc' = "plot_rest"
             /\ err' = err
    /\ UNCHANGED << openHandles, offset, reads, result, ene, flux, caller,
                    specfile, kwargs, fnorm, spect, ct, fthermal,
                    varsAccumLocals, varsPowerLawLocals,
                    varsParticle, varsVdist, varsAggregate, varsBox >>

\* lines 289-346: get_thermal_total and the curves of the plot.  With
\* is_power, power_law_fit(elog, fnonthermal, offset, extent) runs
\* (SpecPowerLaw) and ends in one of its errors or returns; e_extend is then
\* read, a name plot_spectrum does not define (NameError unless one of the
\* modules imported with * defines it).
plot_rest ==
    /\ pc = "plot_rest"
    /\ IF kwargs.is_power
       THEN \/ /\ pc' = "raised"
               /\ err' \in {"ValueError", "TypeError", "IndexError", "NameError"}
            \/ pc' = "returned" /\ err' = err
       ELSE pc' = "returned" /\ err' = err
    /\ UNCHANGED << openHandles, offset, reads, result, varsSpectrum,
                    varsParticle, varsVdist, varsAggregate, varsBox >>

\* lines 732-740: ct += 1, the test of the next file, the thermal core of
\* this frame and its remainder; nothing catches the RuntimeError of a fit
\* that does not converge
cn_fit ==
    /\ pc = "cn_fit"
    /\ ct' = ct + 1
    /\ fitcalls' = Append(fitcalls, spect.flog)
    /\ \/ /\ pc' = "raised" /\ err' = "RuntimeError"
          /\ UNCHANGED << fthermal, fnonthermal >>
       \/ \E shape \in ThermalShapes :
             /\ fthermal' = ThermalCurve(shape, spect.flog)
             /\ fnonthermal' = FluxMinus(spect.flog, fthermal')
             /\ pc' = IF specfile.frames >= ct + 1
                      THEN "get_energy_distribution" ELSE "cn_finish"
             /\ err' = err
    /\ UNCHANGED << openHandles, offset, reads, result, ene, flux, caller,
                    specfile, kwargs, fnorm, spect, fthermal1, fnonthermal1,
                    varsAccumLocals, varsPowerLawLocals,
                    varsParticle, varsVdist, varsAggregate, varsBox >>

\* lines 741-751: the figure, then nnth[-1] / ntot[-1]: nnth is unbound
\* when the loop never ran (UnboundLocalError); return the fractions
cn_finish ==
    /\ pc = "cn_finish"
    /\ IF ct = 1
       THEN pc' = "raised" /\ err' = "UnboundLocalError" /\ result' = result
       ELSE pc' = "returned" /\ err' = err /\ result' = [frames |-> ct - 1]
    /\ UNCHANGED << openHandles, offset, reads, varsSpectrum,
                    varsParticle, varsVdist, varsAggregate, varsBox >>

NextSpectrum ==
    \/ read_energy_distribution_enter
    \/ plot_spectrum_enter
    \/ calc_nonthermal_fraction_enter
    \/ get_energy_distribution
    \/ return_fenergy
    \/ ion_flux
    \/ fit_thermal_core_first
    \/ fit_remainder
    \/ plot_rest
    \/ cn_fit
    \/ cn_finish

SpecSpectrum == InitSpectrum /\ [][NextSpectrum]_vars


--------------------------------------------------------------------------
(* Claims about the spectrum files and their callers (SpecSpectrum) *)

\* the table of the modelled file
StoredTable == SpectrumTable(specfile.rows, specfile.seed)

\* C12: the factor read_energy_distribution passes to
\* get_energy_distribution is nx * ny * nz * nppc, as it is for
\* plot_spectrum (and calc_nonthermal_fraction), for every pic_info.
C12_NtotIsCellsTimesNppc ==
    pc # "enter" =>
        fnorm = ((pic_info.nx * pic_info.ny) * pic_info.nz) * pic_info.nppc

\* get_energy_distribution has just returned its four arrays
EnergyDistributionReturned == pc \in {"return_fenergy", "ion_flux", "cn_fit"}

\* C13: get_energy_distribution returns the four columns of the file with
\* flin and flog each divided by fnorm and the two energy columns as stored.
C13_BothFluxesNormalized ==
    EnergyDistributionReturned =>
        \A k \in 1..specfile.rows :
            /\ IsStoredOver(spect.flin[k], StoredTable.flin[k], fnorm)
            /\ IsStoredOver(spect.flog[k], StoredTable.flog[k], fnorm)
            /\ IsStoredOver(spect.elin[k], StoredTable.elin[k], 1)
            /\ IsStoredOver(spect.elog[k], StoredTable.elog[k], 1)

\* C19: a thermal-core fit that does not converge does not end the query of
\* its callers: neither plot_spectrum nor calc_nonthermal_fraction ends in
\* the error of the fit.
C19_FitFailureIsRecovered ==
    caller \in {"plot_spectrum", "calc_nonthermal_fraction"} =>
        ~(pc = "raised" /\ err = "RuntimeError")

\* x + y = z for fractions
SumIs(x, y, z) == (x.n * y.d + y.n * x.d) * z.d = z.n * (x.d * y.d)

\* C20: in plot_spectrum fit_thermal_core is called on the input flux, then
\* once on the remainder flux - thermal and never a third time, and after
\* the two passes thermal + nonthermal = flux and secondaryThermal +
\* secondaryNonthermal = nonthermal at every bin.
C20_TwoPassDecomposition ==
    caller = "plot_spectrum" =>
        /\ Len(fitcalls) <= 2
        /\ Len(fitcalls) >= 1 => fitcalls[1] = spect.flog
        /\ Len(fitcalls) = 2 =>
              /\ Len(fitcalls[2]) = Len(spect.flog)
              /\ \A k \in 1..Len(spect.flog) :
                    SumIs(fthermal[k], fitcalls[2][k], spect.flog[k])
        /\ pc = "plot_rest" => fnonthermal1 # << >>
        /\ fnonthermal1 # << >> =>
              /\ Len(fitcalls) = 2
              /\ \A k \in 1..Len(spect.flog) :
                    /\ SumIs(fthermal[k], fnonthermal[k], spect.flog[k])
                    /\ SumIs(fthermal1[k], fnonthermal1[k], fnonthermal[k])

C20_Witness ==
    /\ caller = "plot_spectrum"
    /\ pc = "returned"
    /\ species = "h"
    /\ pic_info.mime = 4
    /\ specfile.rows = 3
    /\ Len(fitcalls) = 2
    /\ fthermal[1].n = 1
    /\ fthermal1[1].n = 1
    /\ fnonthermal1[1].n = spect.flog[1].n - 2


--------------------------------------------------------------------------
(* generate_spectrum_vdist_config: the configuration file, line by line.  *)
(* A line is the sequence of its blank-separated words; a formatted       *)
(* number is the record of its conversion and its argument.               *)

\* every variable generate_spectrum_vdist_config leaves alone
varsNotConfig ==
    << offset, reads, result, exists, fpos, header, varsVdist, varsAggregate, ene, flux,
       i_bin, nacc_ene, eacc_ene, extend, estart, eend, popt, caller, specfile,
       fnorm, spect, ct, fthermal, fnonthermal, fthermal1, fnonthermal1,
       fitcalls, varsBox >>

\* the keyword arguments the function looks up
ConfigKwargNames == {"center", "sizes", "nbins", "vmax", "vmin", "tframe"}

\* '%6.2f' % v and '%d' % v
Fmt62f(v) == [fmt |-> "%6.2f", arg |-> v]
FmtD(v) == [fmt |-> "%d", arg |-> v]

\* lines 326-340: the keyword argument each write looks up, "" if none
\* (variant: vmin is written before vmax)
ConfigWritesVminFirst ==
    << << "title", "", 0 >>, << "blank", "", 0 >>,
       << "nbins", "", 0 >>, << "emax", "", 0 >>, << "emin", "", 0 >>,
       << "xc/de", "center", 1 >>, << "yc/de", "center", 2 >>,
       << "zc/de", "center", 3 >>,
       << "xsize", "sizes", 1 >>, << "ysize", "sizes", 2 >>,
       << "zsize", "sizes", 3 >>,
       << "nbins_vdist", "nbins", 0 >>, << "vmin", "vmin", 0 >>,
       << "vmax", "vmax", 0 >>, << "tframe", "tframe", 0 >> >>
ConfigWrites ==
    << << "title", "", 0 >>, << "blank", "", 0 >>,
       << "nbins", "", 0 >>, << "emax", "", 0 >>, << "emin", "", 0 >>,
       << "xc/de", "center", 1 >>, << "yc/de", "center", 2 >>,
       << "zc/de", "center", 3 >>,
       << "xsize", "sizes", 1 >>, << "ysize", "sizes", 2 >>,
       << "zsize", "sizes", 3 >>,
       << "nbins_vdist", "nbins", 0 >>, << "vmax", "vmax", 0 >>,
       << "vmin", "vmin", 0 >>, << "tframe", "tframe", 0 >> >>

\* lines 326-340: the text of write number k under the keyword arguments kw
ConfigLine(k, kw) ==
    LET w == ConfigWrites[k]
    IN  CASE w[1] = "title" ->
                << "*****", "Configuration", "file", "for", "velocity",
                   "distribution", "*****" >>
          [] w[1] = "blank" -> << >>
          [] w[1] = "nbins" -> << "nbins", "=", "600" >>
          [] w[1] = "emax" -> << "emax", "=", "100.0" >>
          [] w[1] = "emin" -> << "emin", "=", "0.0001" >>
          [] w[2] = "center" -> << w[1], "=", Fmt62f(kw.center[w[3]]) >>
          [] w[2] = "sizes" -> << w[1], "=", FmtD(kw.sizes[w[3]]) >>
          [] w[2] = "nbins" -> << w[1], "=", FmtD(kw.nbins) >>
          [] w[2] = "tframe" -> << w[1], "=", FmtD(kw.tframe) >>
          [] OTHER -> << w[1], "=", Fmt62f(kw[w[2]]) >>

\* the keyword arguments of the modelled calls: any of the six may be missing
ConfigKwargs ==
    UNION {[center : IF "center" \in K THEN {<< 0, 1, 2 >>, << 3, 3, 3 >>} ELSE {<< >>},
            sizes : IF "sizes" \in K THEN {<< 4, 5, 6 >>} ELSE {<< >>},
            nbins : IF "nbins" \in K THEN {64} ELSE {-1},
            vmax : IF "vmax" \in K THEN {2} ELSE {-1},
            vmin : IF "vmin" \in K THEN {0} ELSE {-1},
            tframe : IF "tframe" \in K THEN {1, 2} ELSE {-1},
            given : {K}] : K \in SUBSET ConfigKwargNames}

InitConfig ==
    /\ pc = "open"
    /\ openHandles = {}
    /\ offset = 0
    /\ reads = << >>
    /\ result = None
    /\ err = None
    /\ kwargs \in ConfigKwargs
    /\ exists \in BOOLEAN
    /\ file = << >>
    /\ fpos = 0
    /\ header = None
    /\ IdleVdist
    /\ IdleAggregate
    /\ IdleAccum
    /\ IdlePowerLaw
    /\ caller = None /\ specfile = None /\ fnorm = 0 /\ spect = None
    /\ ct = 0 /\ fthermal = << >> /\ fnonthermal = << >> /\ fthermal1 = << >>
    /\ fnonthermal1 = << >>
    /\ fitcalls = << >>
    /\ IdleBox

\* line 323: open(fname, 'w+') truncates the file; it fails when the
\* directory of fname does not exist
config_open ==
    /\ pc = "open"
    /\ IF exists
       THEN /\ openHandles' = openHandles \cup {"f"}
            /\ file' = << >>
            /\ pc' = "args"
            /\ err' = err
       ELSE /\ err' = "IOError"
            /\ pc' = "raised"
            /\ UNCHANGED << openHandles, file >>
    /\ UNCHANGED << kwargs, varsNotConfig >>

\* lines 324-325: center and sizes are looked up before the first write; a
\* missing one is a KeyError, and the with statement closes the file
config_args ==
    /\ pc = "args"
    /\ IF {"center", "sizes"} \subseteq kwargs.given
       THEN /\ pc' = "write"
            /\ UNCHANGED << openHandles, err >>
       ELSE /\ err' = "KeyError"
            /\ openHandles' = openHandles \ {"f"}
            /\ pc' = "raised"
    /\ UNCHANGED << file, kwargs, varsNotConfig >>

\* lines 326-340: one f.write; the lookup of a missing keyword argument is
\* a KeyError that leaves the lines written so far in the file
config_write ==
    /\ pc = "write"
    /\ Len(file) < Len(ConfigWrites)
    /\ LET k == Len(file) + 1
           need == ConfigWrites[k][2]
       IN  IF need = "" \/ need \in kwargs.given
           THEN /\ file' = Append(file, ConfigLine(k, kwargs))
                /\ pc' = IF k = Len(ConfigWrites) THEN "close" ELSE "write"
                /\ UNCHANGED << openHandles, err >>
           ELSE /\ err' = "KeyError"
                /\ openHandles' = openHandles \ {"f"}
                /\ pc' = "raised"
                /\ file' = file
    /\ UNCHANGED << kwargs, varsNotConfig >>

\* line 341 and the end of the with block
config_close ==
    /\ pc = "close"
    /\ openHandles' = openHandles \ {"f"}
    /\ pc' = "returned"
    /\ UNCHANGED << file, err, kwargs, varsNotConfig >>

NextConfig ==
    \/ config_open
    \/ config_args
    \/ config_write
    \/ config_close

SpecConfig == InitConfig /\ [][NextConfig]_vars

--------------------------------------------------------------------------
(* Claims about generate_spectrum_vdist_config *)

\* a line of the form key = value
IsKeyLine(line) == Len(line) = 3 /\ line[2] = "="

\* the keys of the key = value lines of a file, in file order
RECURSIVE KeysOf(_)
KeysOf(lines) ==
    IF lines = << >> THEN << >>
    ELSE IF IsKeyLine(Head(lines))
         THEN << Head(lines)[1] >> \o KeysOf(Tail(lines))
         ELSE KeysOf(Tail(lines))

RecognizedKeys ==
    << "nbins", "emax", "emin", "xc/de", "yc/de", "zc/de", "xsize", "ysize",
       "zsize", "nbins_vdist", "vmax", "vmin", "tframe" >>

\* C21: the file generate_spectrum_vdist_config has written when it returns
\* holds each of the 13 recognized keys exactly once, in the order nbins,
\* emax, emin, xc/de, yc/de, zc/de, xsize, ysize, zsize, nbins_vdist, vmax,
\* vmin, tframe, and no other key.
C21_ConfigHasTheRecognizedKeys ==
    pc = "returned" => KeysOf(file) = RecognizedKeys

C21_Witness ==
    /\ pc = "returned"
    /\ kwargs.given = ConfigKwargNames
    /\ Len(file) = 15
    /\ file[6] = << "xc/de", "=", Fmt62f(3) >>
    /\ file[15] = << "tframe", "=", FmtD(2) >>


--------------------------------------------------------------------------
(* Claims about a missing input file *)

\* C22: when the file a reader opens is missing, the reader ends in the
\* file-open error (IOError) for that file: not in a later unrelated
\* failure and not in a returned result.  Here for the spectrum reader
\* (read_spectrum_data called by get_energy_distribution), reached through
\* read_energy_distribution, which does not test for the file beforehand.
C22_MissingFileIsOpenError ==
    ( /\ caller = "read_energy_distribution"
      /\ specfile.frames = 0
      /\ pc \in {"returned", "raised"} )
        => (pc = "raised" /\ err = "IOError")


--------------------------------------------------------------------------
(* calc_velocity_distribution on one particle of `ptl`: the cell           *)
(* coordinate of its flattened cell index, its position and its place in  *)
(* the mask.  dxyz is -1, 0 or 1: the two faces and the middle of a cell. *)

\* Bound: the largest v0.nx, v0.ny, v0.nz of a modelled grid header.
MaxGrid == 2

\* the grid headers of the modelled rank files: nx, ny, nz cells, with an
\* origin and a cell spacing that differ from axis to axis
GridHeaders ==
    {[nx |-> a, ny |-> b, nz |-> c, x0 |-> 0, y0 |-> -1, z0 |-> 2,
      dx |-> 1, dy |-> 2, dz |-> 1] : a, b, c \in 1..MaxGrid}

\* the number of cells of the grid with its ghost cells
GhostCells(h) == (h.nx + 2) * (h.ny + 2) * (h.nz + 2)

\* dxyz of the modelled particles
CellOffsets ==
    {<< d, e[1], e[2] >> : d \in {-1, 0, 1}, e \in {<< -1, 1 >>, << 0, 0 >>, << 1, -1 >>}}

\* mass ratio and box of the modelled calls: the first cell of the domain,
\* a box wider than the domain, a thin box on a cell face
CellBoxes ==
    { << << 0, 1 >>, << -1, 1 >>, << 2, 3 >> >>,
      << << -9, 9 >>, << -9, 9 >>, << -9, 9 >> >>,
      << << 1, 1 >>, << -1, 3 >>, << 1, 3 >> >> }

InitCell ==
    /\ pc = "decode_cell"
    /\ openHandles = {}
    /\ offset = 0
    /\ reads = << >>
    /\ result = None
    /\ err = None
    /\ v0header \in GridHeaders
    /\ \E k \in 0..(GhostCells(v0header) - 1), d \in CellOffsets :
          particle = [dxyz |-> d, icell |-> k, u |-> << 0, 0, 0 >>]
    /\ cellxyz = [ix |-> 0, iy |-> 0, iz |-> 0]
    /\ mask = FALSE
    /\ pic_info \in [mime : {1, 4}]
    /\ corners \in CellBoxes
    /\ mpi_ranks = None /\ rankfiles = None /\ loop = None
    /\ hist_xy = << >> /\ hist_xz = << >> /\ hist_yz = << >>
    /\ vhist = None /\ visited = << >>
    /\ IdleRanks
    /\ IdleParticle
    /\ IdleVdist
    /\ IdleSpectrum

\* lines 127-132: iz, iy, ix of the particle
decode_cell ==
    /\ pc = "decode_cell"
    /\ cellxyz' = CellOf(v0header, particle.icell)
    /\ pc' = "build_mask"
    /\ UNCHANGED << openHandles, offset, reads, result, err, v0header, particle, mask,
                    center, sizes, varsParticle, varsVdist, varsAggregate,
                    varsSpectrum >>

\* lines 134-146: the position in de and the mask
build_mask ==
    /\ pc = "build_mask"
    /\ mask' = InMask(v0header, particle, pic_info, corners)
    /\ pc' = "returned"
    /\ UNCHANGED << openHandles, offset, reads, result, err, v0header, particle,
                    cellxyz, center, sizes, varsParticle, varsVdist, varsAggregate,
                    varsSpectrum >>

NextCell ==
    \/ decode_cell
    \/ build_mask

SpecCell == InitCell /\ [][NextCell]_vars

--------------------------------------------------------------------------
(* Claims about the cell index and the mask *)

\* C23: decoding inverts the flattening over the grid with its ghost
\* cells: for every (ix, iy, iz) with 0 <= ix < nx+2, 0 <= iy < ny+2,
\* 0 <= iz < nz+2, the cell index iz*(nx+2)*(ny+2) + iy*(nx+2) + ix is
\* decoded to exactly (ix, iy, iz).
C23_DecodeInvertsFlattening ==
    pc # "decode_cell" =>
        \A ix \in 0..(v0header.nx + 1), iy \in 0..(v0header.ny + 1),
           iz \in 0..(v0header.nz + 1) :
            particle.icell = iz * (v0header.nx + 2) * (v0header.ny + 2)
                                + iy * (v0header.nx + 2) + ix
                => cellxyz = [ix |-> ix, iy |-> iy, iz |-> iz]

C23_Witness ==
    /\ pc = "returned"
    /\ v0header.nx = 2 /\ v0header.ny = 1 /\ v0header.nz = 2
    /\ particle.icell = 3 * 4 * 3 + 2 * 4 + 3
    /\ cellxyz = [ix |-> 3, iy |-> 2, iz |-> 3]

\* twice the position the claim gives a particle on one axis, before the
\* division by sqrt(mime)
ClaimedPos2(origin, cellIndex, relPos, cellSpacing) ==
    2 * origin + 2 * (cellIndex - 1) * cellSpacing + (relPos + 1) * cellSpacing

\* min <= position / sqrt(mime) <= max
ClaimedWithin(pos2, range) ==
    LET root == CHOOSE r \in 1..5 : r * r = pic_info.mime
    IN  2 * root * range[1] <= pos2 /\ pos2 <= 2 * root * range[2]

\* C24: a particle is kept by the mask if and only if on each of the three
\* axes (origin + ((cellIndex - 1) + (relPos + 1)/2) * cellSpacing) /
\* sqrt(mime) lies within [min, max] of corners, bounds included.
C24_MaskIsInclusiveBox ==
    pc = "returned" =>
        ( mask <=>
            /\ ClaimedWithin(ClaimedPos2(v0header.x0, cellxyz.ix, particle.dxyz[1],
                                         v0header.dx), corners[1])
            /\ ClaimedWithin(ClaimedPos2(v0header.y0, cellxyz.iy, particle.dxyz[2],
                                         v0header.dy), corners[2])
            /\ ClaimedWithin(ClaimedPos2(v0header.z0, cellxyz.iz, particle.dxyz[3],
                                         v0header.dz), corners[3]) )

\* a particle on the upper x bound of the box, with mime = 4, is kept
C24_Witness ==
    /\ pc = "returned"
    /\ mask
    /\ pic_info.mime = 4
    /\ corners[1] = << 0, 1 >>
    /\ ClaimedPos2(v0header.x0, cellxyz.ix, particle.dxyz[1], v0header.dx) = 4


--------------------------------------------------------------------------
(* Claims about the recurrence of accumulated_particle_info *)

\* twice the count integral of the claim at bin k, before the scaling
RECURSIVE ClaimedCount2(_, _, _)
ClaimedCount2(fl, en, k) ==
    IF k = 1 THEN 2 * fl[1] * en[1]
    ELSE ClaimedCount2(fl, en, k - 1) + fl[k] * (en[k] + en[k - 1])

\* n * dlogE of the claim: log10(max(energy)) - log10(min(energy))
ClaimedLogSpan(en) ==
    LET hi == CHOOSE x \in AccumEnergies :
                  (\E k \in 1..Len(en) : en[k] = x) /\ (\A k \in 1..Len(en) : en[k] <= x)
        lo == CHOOSE x \in AccumEnergies :
                  (\E k \in 1..Len(en) : en[k] = x) /\ (\A k \in 1..Len(en) : en[k] >= x)
    IN  (CHOOSE j \in 0..2 : Pow10(j) = hi) - (CHOOSE j \in 0..2 : Pow10(j) = lo)

\* C25: before the final scaling countAccum[0] = flux[0]*energy[0] and
\* countAccum[i] = countAccum[i-1] + flux[i]*(energy[i]+energy[i-1])/2 for
\* every i >= 1; both returned arrays are the unscaled ones times dlogE =
\* (log10(max(energy)) - log10(min(energy))) / n, once, so the returned
\* countAccum[0] is flux[0]*energy[0]*dlogE.  (Counts are kept doubled and
\* the returned values over the denominator 2 * n.)
C25_CountRecurrenceScaledOnce ==
    /\ pc = "accum_loop" =>
          \A k \in 1..i_bin : nacc_ene[k] = ClaimedCount2(flux, ene, k)
    /\ pc = "returned" =>
          /\ result.den = 2 * Len(flux)
          /\ \A k \in 1..Len(flux) :
                /\ result.nacc[k] = ClaimedCount2(flux, ene, k) * ClaimedLogSpan(ene)
                /\ result.eacc[k] = eacc_ene[k] * ClaimedLogSpan(ene)
          /\ result.nacc[1] = 2 * flux[1] * ene[1] * ClaimedLogSpan(ene)

C25_Witness ==
    /\ pc = "returned"
    /\ ene = << 10, 100, 1 >>
    /\ flux = << 2, 1, 1 >>
    /\ result.den = 6
    /\ result.nacc = << 80, 300, 502 >>


--------------------------------------------------------------------------
(* fit_thermal_core on an energy/flux pair.  The smoothed flux is kept     *)
(* times 3 (the kernel of ones), which leaves its argmax where it is.  A  *)
(* value of the fitted curve is the record of its two parameters and of   *)
(* the energy it is evaluated at.                                         *)

\* Bound: the largest number of bins of a spectrum given to fit_thermal_core.
MaxThermalBins == 12

\* line 115: nshift
nshift == 10

\* line 112-113: np.ones(ng), the kernel times ng
KernelOnes == << 1, 1, 1 >>

\* element k (from 0) of the full convolution of a and v
ConvolveFull(a, v, k) ==
    SeqSum([j \in 1..Len(a) |->
               IF 1 <= k + 2 - j /\ k + 2 - j <= Len(v) THEN a[j] * v[k + 2 - j] ELSE 0])

\* np.convolve(a, v, 'same'): max(len(a), len(v)) elements of the full
\* convolution, from element n2 - 1 - n2 // 2 with n2 the smaller length
ConvolveSame(a, v) ==
    LET n1 == IF Len(a) >= Len(v) THEN Len(a) ELSE Len(v)
        n2 == IF Len(a) >= Len(v) THEN Len(v) ELSE Len(a)
        first == n2 - 1 - (n2 \div 2)
    IN  [i \in 1..n1 |-> ConvolveFull(a, v, first + i - 1)]

\* lines 114 and 116: np.argmax(fnew)
\* (variant: the peak of the flux itself)
ThermalPeakUnsmoothed(fl) == ArgMax(fl)
ThermalPeak(fl) == ArgMax(ConvolveSame(fl, KernelOnes))

\* the linear energy bins 1, 2, ... of a spectrum of n bins
ThermalEnergies(n) == [k \in 1..n |-> k]

\* The modelled fluxes of n bins: a floor of 1, a spike of height h at bin
\* a and a plateau of height g over the bins b, b+1, b+2.
ThermalFlux(n, a, h, b, g) ==
    [k \in 1..n |-> 1 + (IF k = a THEN h ELSE 0)
                      + (IF b <= k /\ k <= b + 2 THEN g ELSE 0)]

\* the parameters (popt[0], popt[1]) a converged fit may return
MaxwellianParams == {<< 1, 1 >>, << 2, 1 >>}

\* fitting_funcs.func_maxwellian(ene, a, b): A sqrt(E) exp(-B E) at every
\* element of ene
func_maxwellian(en, a, b) == [k \in 1..Len(en) |-> [A |-> a, B |-> b, E |-> en[k]]]

InitThermal ==
    /\ pc = "thermal_window"
    /\ openHandles = {}
    /\ offset = 0
    /\ reads = << >>
    /\ result = None
    /\ err = None
    /\ \E n \in 0..MaxThermalBins :
          /\ ene = ThermalEnergies(n)
          /\ \E a, b \in 1..(IF n = 0 THEN 1 ELSE n), h \in {0, 5}, g \in {0, 4} :
                flux = ThermalFlux(n, a, h, b, g)
    /\ i_bin = 0 /\ nacc_ene = << >> /\ eacc_ene = << >>
    /\ IdlePowerLaw
    /\ IdleDecompose
    /\ fitcalls = << >>
    /\ IdleParticle
    /\ IdleVdist
    /\ IdleAggregate
    /\ IdleBox

\* lines 111-116: estart, the smoothed flux (np.convolve of an empty array
\* raises ValueError) and eend
thermal_window ==
    /\ pc = "thermal_window"
    /\ IF Len(flux) = 0
       THEN pc' = "raised" /\ err' = "ValueError" /\ UNCHANGED << estart, eend >>
       ELSE /\ estart' = 0
            /\ eend' = ThermalPeak(flux) + nshift
            /\ pc' = "thermal_fit"
            /\ err' = err
    /\ UNCHANGED << openHandles, offset, reads, result, ene, flux, extend, popt,
                    fitcalls, varsAccumLocals, caller, specfile, kwargs, fnorm, spect,
                    ct, fthermal, fnonthermal, fthermal1, fnonthermal1,
                    varsParticle, varsVdist, varsAggregate, varsBox >>

\* lines 117-118: curve_fit of the two parameters on ene[estart:eend],
\* f[estart:eend]; fewer points than parameters is a TypeError, a fit that
\* does not converge a RuntimeError
thermal_fit ==
    /\ pc = "thermal_fit"
    /\ fitcalls' = Append(fitcalls, [x |-> PySlice(ene, estart, eend),
                                     y |-> PySlice(flux, estart, eend)])
    /\ IF Len(PySlice(flux, estart, eend)) < 2
       THEN pc' = "raised" /\ err' = "TypeError" /\ popt' = popt
       ELSE \/ pc' = "raised" /\ err' = "RuntimeError" /\ popt' = popt
            \/ /\ popt' \in MaxwellianParams
               /\ pc' = "thermal_return"
               /\ err' = err
    /\ UNCHANGED << openHandles, offset, reads, result, ene, flux, extend, estart,
                    eend, varsAccumLocals, caller, specfile, kwargs, fnorm, spect,
                    ct, fthermal, fnonthermal, fthermal1, fnonthermal1,
                    varsParticle, varsVdist, varsAggregate, varsBox >>

\* lines 119-125: the curve over the whole of ene, the prints (ene[eend - 10]
\* is an index check) and the return
thermal_return ==
    /\ pc = "thermal_return"
    /\ IF PyIndexOK(Len(ene), eend - 10)
       THEN /\ result' = func_maxwellian(ene, popt[1], popt[2])
            /\ pc' = "returned"
            /\ err' = err
       ELSE pc' = "raised" /\ err' = "IndexError" /\ result' = result
    /\ UNCHANGED << openHandles, offset, reads, ene, flux, extend, estart, eend,
                    popt, fitcalls, varsAccumLocals, caller, specfile, kwargs, fnorm,
                    spect, ct, fthermal, fnonthermal, fthermal1, fnonthermal1,
                    varsParticle, varsVdist, varsAggregate, varsBox >>

NextThermal ==
    \/ thermal_window
    \/ thermal_fit
    \/ thermal_return

SpecThermal == InitThermal /\ [][NextThermal]_vars

--------------------------------------------------------------------------
(* Claims about fit_thermal_core *)

\* three times the length-3 moving average of fl at index i (from 0),
\* bins outside the array counting as 0
MovingSum3(fl, i) ==
    (IF i >= 1 THEN fl[i] ELSE 0) + fl[i + 1] + (IF i + 2 <= Len(fl) THEN fl[i + 2] ELSE 0)

\* the first index at which the moving average is largest
ClaimedPeak(fl) ==
    CHOOSE p \in 0..(Len(fl) - 1) :
        /\ \A i \in 0..(Len(fl) - 1) : MovingSum3(fl, i) <= MovingSum3(fl, p)
        /\ \A i \in 0..(p - 1) : MovingSum3(fl, i) < MovingSum3(fl, p)

\* the bins (from 0) of the array inside the window [0, p + 10)
ClaimedThermalWindow(fl) ==
    {i \in 0..(Len(fl) - 1) : i < ClaimedPeak(fl) + 10}

\* C26: the fit is made on the unsmoothed flux over the window [0, p+10),
\* p the first index at which the length-3 moving average of the flux is
\* largest, and the function returns the model evaluated at every bin of
\* the full energy array.
C26_ThermalWindowAndFullCurve ==
    /\ Len(fitcalls) <= 1
    /\ pc \in {"thermal_return", "returned"} => Len(fitcalls) = 1
    /\ Len(fitcalls) = 1 =>
          LET w == ClaimedThermalWindow(flux)
          IN  /\ Len(fitcalls[1].x) = Cardinality(w)
              /\ Len(fitcalls[1].y) = Cardinality(w)
              /\ \A i \in w : /\ fitcalls[1].x[i + 1] = ene[i + 1]
                              /\ fitcalls[1].y[i + 1] = flux[i + 1]
    /\ pc = "returned" =>
          /\ Len(result) = Len(ene)
          /\ \A k \in 1..Len(ene) : result[k].E = ene[k]

\* the flux is largest in its last bin, its moving average in bin 1: the
\* window is the first 11 of the 12 bins
C26_Witness ==
    /\ pc = "returned"
    /\ Len(flux) = 12
    /\ flux[12] = 6
    /\ flux[1] = 5 /\ flux[2] = 5 /\ flux[3] = 5
    /\ Len(fitcalls[1].y) = 11
    /\ Len(result) = 12


--------------------------------------------------------------------------
(* Claims about the window of power_law_fit *)

\* the bins es .. ee-1 of a, for 0 <= es < ee <= Len(a); << >> otherwise
BinsOf(a, es, ee) ==
    IF 0 <= es /\ es < ee /\ ee <= Len(a)
    THEN [k \in 1..(ee - es) |-> a[es + k]]
    ELSE << >>

\* the first index (from 0) of the largest flux
FirstMaximum(fl) ==
    CHOOSE i \in 0..(Len(fl) - 1) :
        /\ \A j \in 0..(Len(fl) - 1) : fl[j + 1] <= fl[i + 1]
        /\ \A j \in 0..(i - 1) : fl[j + 1] < fl[i + 1]

\* C27: power_law_fit never adjusts the caller's window: es = argmax(f) +
\* offset (first index of the maximum) and ee = es + extend are the
\* indices it returns, the least-squares fit uses exactly the bins
\* es..ee-1, and fpower has one value for every bin of the energy array.
C27_WindowNeverAdjusted ==
    /\ WindowSet =>
          /\ estart = FirstMaximum(flux) + offset
          /\ eend = estart + extend
    /\ fitcalls # << >> =>
          /\ Len(fitcalls) = 1
          /\ 0 <= estart /\ estart < eend /\ eend <= Len(flux)
          /\ fitcalls[1] = BinsOf(flux, estart, eend)
    /\ pc = "returned" =>
          /\ result.es = estart
          /\ result.ee = eend
          /\ Len(result.fpower) = Len(ene)

\* C30: whenever power_law_fit returns a result, 0 <= es < ee <= len(ene)
\* and the bins used for the fit and for the window fractions are exactly
\* es..ee-1; a negative start index is never accepted and wrapped around to
\* the end of the array.
C30_ReturnedWindowInsideArray ==
    pc = "returned" =>
        /\ 0 <= result.es
        /\ result.es < result.ee
        /\ result.ee <= Len(ene)
        /\ fitcalls[1] = BinsOf(flux, result.es, result.ee)
        /\ result.fraction_of = BinsOf(ene, result.es, result.ee)


--------------------------------------------------------------------------
(* set_mpi_ranks.  Lengths are kept doubled, as integers: a cell is 1 di   *)
(* wide, the domain of a rank RankWidth cells, and `corners` holds twice  *)
(* xs, xe, ys, ye, zs, ze while the function runs.                        *)

\* cells per rank and axis: dx_domain / dx_di
RankWidth == 4

\* pic_info of a run of tx x ty x tz ranks
RanksPicInfo(tx, ty, tz) ==
    [topology_x |-> tx, topology_y |-> ty, topology_z |-> tz,
     lx_di |-> RankWidth * tx, ly_di |-> RankWidth * ty, lz_di |-> RankWidth * tz,
     dx_di |-> 1, dy_di |-> 1, dz_di |-> 1]

\* the centers of the modelled boxes on an axis from lo to lo + len: below
\* the domain, its lower edge, inside, its upper edge, above the domain
CenterValues(lo, len) == {lo - 1, lo, lo + 1, lo + len, lo + len + 1}

\* the sizes of the modelled boxes, in cells
SizeValues == {0, 2, 9}

\* lines 285-296: v limited to [lo, hi]
Limit(v, lo, hi) == IF v < lo THEN lo ELSE IF v > hi THEN hi ELSE v

\* lines 298-309 for one axis: the ranks of the doubled positions s2, e2
\* measured from the lower edge of the domain; only the end is limited to
\* the last rank
AxisRanks(s2, e2, t) ==
    << s2 \div (2 * RankWidth),
       IF e2 \div (2 * RankWidth) >= t THEN t - 1 ELSE e2 \div (2 * RankWidth) >>

InitRanks ==
    /\ pc = "set_box"
    /\ openHandles = {}
    /\ offset = 0
    /\ reads = << >>
    /\ result = None
    /\ err = None
    /\ \E tx, ty, tz \in 1..MaxTopo :
          /\ pic_info = RanksPicInfo(tx, ty, tz)
          /\ center \in CenterValues(0, RankWidth * tx)
                           \X CenterValues(-(RankWidth \div 2) * ty, RankWidth * ty)
                           \X CenterValues(-(RankWidth \div 2) * tz, RankWidth * tz)
    /\ sizes \in SizeValues \X SizeValues \X SizeValues
    /\ corners = << << 0, 0 >>, << 0, 0 >>, << 0, 0 >> >>
    /\ mpi_ranks = << << 0, 0 >>, << 0, 0 >>, << 0, 0 >> >>
    /\ rankfiles = None /\ loop = None
    /\ hist_xy = << >> /\ hist_xz = << >> /\ hist_yz = << >>
    /\ vhist = None /\ visited = << >>
    /\ IdleCell
    /\ IdleParticle
    /\ IdleVdist
    /\ IdleSpectrum

\* lines 265-282: hsize and the box center -/+ hsize * cell, doubled
set_box ==
    /\ pc = "set_box"
    /\ corners' =
          << << 2 * center[1] - sizes[1] * pic_info.dx_di,
                2 * center[1] + sizes[1] * pic_info.dx_di >>,
             << 2 * center[2] - sizes[2] * pic_info.dy_di,
                2 * center[2] + sizes[2] * pic_info.dy_di >>,
             << 2 * center[3] - sizes[3] * pic_info.dz_di,
                2 * center[3] + sizes[3] * pic_info.dz_di >> >>
    /\ pc' = "limit_box"
    /\ UNCHANGED << openHandles, offset, reads, result, err, pic_info, mpi_ranks,
                    rankfiles, loop, hist_xy, hist_xz, hist_yz, vhist, visited,
                    center, sizes, v0header, particle, cellxyz, mask,
                    varsParticle, varsVdist, varsSpectrum >>

\* lines 285-296: x in [0, lx_di], y in [-ly_di/2, ly_di/2], z likewise
limit_box ==
    /\ pc = "limit_box"
    /\ corners' =
          << << Limit(corners[1][1], 0, 2 * pic_info.lx_di),
                Limit(corners[1][2], 0, 2 * pic_info.lx_di) >>,
             << Limit(corners[2][1], -pic_info.ly_di, pic_info.ly_di),
                Limit(corners[2][2], -pic_info.ly_di, pic_info.ly_di) >>,
             << Limit(corners[3][1], -pic_info.lz_di, pic_info.lz_di),
                Limit(corners[3][2], -pic_info.lz_di, pic_info.lz_di) >> >>
    /\ pc' = "set_ranks"
    /\ UNCHANGED << openHandles, offset, reads, result, err, pic_info, mpi_ranks,
                    rankfiles, loop, hist_xy, hist_xz, hist_yz, vhist, visited,
                    center, sizes, v0header, particle, cellxyz, mask,
                    varsParticle, varsVdist, varsSpectrum >>

\* lines 298-315: the rank of each corner and the return
set_ranks ==
    /\ pc = "set_ranks"
    /\ mpi_ranks' =
          << AxisRanks(corners[1][1], corners[1][2], pic_info.topology_x),
             AxisRanks(corners[2][1] + pic_info.ly_di, corners[2][2] + pic_info.ly_di,
                       pic_info.topology_y),
             AxisRanks(corners[3][1] + pic_info.lz_di, corners[3][2] + pic_info.lz_di,
                       pic_info.topology_z) >>
    /\ result' = [corners |-> corners, mpi_ranks |-> mpi_ranks']
    /\ pc' = "returned"
    /\ UNCHANGED << openHandles, offset, reads, err, pic_info, corners,
                    rankfiles, loop, hist_xy, hist_xz, hist_yz, vhist, visited,
                    center, sizes, v0header, particle, cellxyz, mask,
                    varsParticle, varsVdist, varsSpectrum >>

NextRanks ==
    \/ set_box
    \/ limit_box
    \/ set_ranks

SpecRanks == InitRanks /\ [][NextRanks]_vars

--------------------------------------------------------------------------
(* Claims about set_mpi_ranks *)

\* the number of ranks on axis a
TopologyOf(a) ==
    CASE a = 1 -> pic_info.topology_x
      [] a = 2 -> pic_info.topology_y
      [] OTHER -> pic_info.topology_z

\* C28: for any box center and non-negative sizes the range returned on
\* each axis satisfies 0 <= start <= end <= topology - 1, so every rank id
\* ix + iy*tx + iz*tx*ty built from the ranges lies in [0, tx*ty*tz) and
\* names an existing rank file.
C28_RankRangesInsideTopology ==
    pc = "returned" =>
        /\ \A a \in 1..3 :
              /\ 0 <= result.mpi_ranks[a][1]
              /\ result.mpi_ranks[a][1] <= result.mpi_ranks[a][2]
              /\ result.mpi_ranks[a][2] <= TopologyOf(a) - 1
        /\ \A ix \in result.mpi_ranks[1][1]..result.mpi_ranks[1][2],
              iy \in result.mpi_ranks[2][1]..result.mpi_ranks[2][2],
              iz \in result.mpi_ranks[3][1]..result.mpi_ranks[3][2] :
              LET id == ix + iy * pic_info.topology_x
                           + iz * pic_info.topology_x * pic_info.topology_y
              IN  0 <= id /\ id < pic_info.topology_x * pic_info.topology_y
                                      * pic_info.topology_z


--------------------------------------------------------------------------
(* Claims about the species of read_velocity_distribution *)

\* the two files opened are the ion files vdist_2d-h and vdist_1d-h
ReadsIonFiles ==
    /\ Len(opened) = 2
    /\ \A k \in 1..2 : opened[k][3] = "h"

\* the returned bins and bounds are the stored ones over sqrt(mime)
DividedBySqrtMime ==
    /\ IsStoredOver(result.vmin, f2d.vmin, RootOfMime)
    /\ IsStoredOver(result.vmax, f2d.vmax, RootOfMime)
    /\ AllStoredOver(result.vbins_short, StoredVbinsShort(f2d, nbins), RootOfMime)
    /\ AllStoredOver(result.vbins_long, StoredVbinsLong(f2d, nbins), RootOfMime)

\* C29: the mass-ratio correction is applied exactly when the ion files
\* are read: for every species value (and a mass ratio other than 1, where
\* the division shows), the files read are vdist_2d-h and vdist_1d-h if
\* and only if the velocity bins and bounds are divided by sqrt(mime).
C29_CorrectionIffIonFiles ==
    (pc = "returned" /\ pic_info.mime > 1) =>
        (ReadsIonFiles <=> DividedBySqrtMime)

==========================================================================
